---- MODULE Spec2Model ----
(***************************************************************************)
(* A model of parts of the Breakpad crash-reporting toolkit:               *)
(*   - DumpContext (processor/dump_context.cc): the CPU context accessors  *)
(*   - the minidump_stackwalk report printers (processor/stackwalk_common) *)
(*   - LongStringDictionary, in both revisions found in the repository     *)
(*   - the upload_system_symbols pipeline (find -> dump -> upload queues)  *)
(*   - PEFile::TryGetDebugInfo, over a mapped file and over a stream       *)
(*   - the path helpers BaseName and DirName                               *)
(*   - the structure definition of the minidump handle-data stream         *)
(*   - PrintStack's reads of the frames' register contexts                 *)
(* Each part has its own next-state relation and specification; the        *)
(* variables of the other parts stay as constructed.                       *)
(***************************************************************************)
EXTENDS Integers, Sequences, FiniteSets, TLC

VARIABLES
  \* DumpContext
  valid_,          \* DumpContext::valid_ (set by the reading subclass)
  context_flags_,  \* DumpContext::context_flags_
  context_,        \* DumpContext::context_ : the installed raw context or NULL
  dc_call,         \* the last accessor call: what it returned and stored, and
                   \* the object it was called on
  \* minidump_stackwalk
  process_state,   \* the ProcessState handed to the printers
  report,          \* the last printer run: which printer, how it ended, its lines
  \* LongStringDictionary
  revision,        \* which revision of long_string_dictionary.h the object is of
  entries_,        \* SimpleStringDictionary::entries_ : key -> value
  lsd_dropped,     \* some SetKeyValue found the table full and did nothing
  lsd_last,        \* per key, the value of the last call that set or removed it
  lsd_call,        \* the last call: its arguments, result and GetCount() before
  \* upload_system_symbols
  main_pc,         \* where main is
  flags,           \* the parsed command line: mode, -arch, -api-key
  pending,         \* what main has still to enqueue: files found, or entries
  fq_queue,        \* findQueue.queue
  dq_queue,        \* DumpQueue.queue
  uq_queue,        \* UploadQueue.queue (nil with -dump-to)
  find_workers,    \* the goroutines of findQueue.worker
  dump_workers,    \* the goroutines of DumpQueue.worker
  upload_workers,  \* the goroutines of UploadQueue.worker
  symfiles,        \* the symbol files that exist in the dump directory
  dump_log,        \* per dump request: how dump_syms ended, its calls of
                   \* os.Remove and UploadQueue.Upload, whether its turn is over
  symupload_runs,  \* the argument lists symupload was run with
  \* PEFile
  pe_file,         \* the file the caller has at hand
  pe_call,         \* the last TryGetDebugInfo call: its revision and results
  \* path_helper
  path_call,       \* the last BaseName or DirName call: its argument and result
  \* minidump structure definitions
  handle_data,     \* the last handle-data stream decoded: its header and fields
  \* PrintStack and the contexts
  stack_print      \* the last PrintStack call: its arguments, the frame
                   \* contexts it read and the stack ranges it printed

dc_vars == <<valid_, context_flags_, context_, dc_call>>
ps_vars == <<process_state, report>>

lsd_vars == <<revision, entries_, lsd_dropped, lsd_last, lsd_call>>

pl_vars == <<main_pc, flags, pending, fq_queue, dq_queue, uq_queue,
             find_workers, dump_workers, upload_workers, symfiles, dump_log,
             symupload_runs>>

pe_vars == <<pe_file, pe_call>>
path_vars == <<path_call>>
hd_vars == <<handle_data>>
sc_vars == <<stack_print>>

dc_others == <<ps_vars, lsd_vars, pl_vars, pe_vars, path_vars, hd_vars, sc_vars>>
ps_others == <<dc_vars, lsd_vars, pl_vars, pe_vars, path_vars, hd_vars, sc_vars>>
lsd_others == <<dc_vars, ps_vars, pl_vars, pe_vars, path_vars, hd_vars, sc_vars>>
pl_others == <<dc_vars, ps_vars, lsd_vars, pe_vars, path_vars, hd_vars, sc_vars>>
pe_others == <<dc_vars, ps_vars, lsd_vars, pl_vars, path_vars, hd_vars, sc_vars>>
path_others == <<dc_vars, ps_vars, lsd_vars, pl_vars, pe_vars, hd_vars, sc_vars>>
hd_others == <<dc_vars, ps_vars, lsd_vars, pl_vars, pe_vars, path_vars, sc_vars>>
sc_others == <<dc_vars, ps_vars, lsd_vars, pl_vars, pe_vars, path_vars, hd_vars>>

(***************************************************************************)
(*                              DumpContext                                *)
(***************************************************************************)

\* Number of distinct register files a dump may carry per architecture.
MaxSeed == 2

\* The architectures for which a context record can be stored in a dump.
CPUs == {"x86", "amd64", "arm", "arm64", "mips", "mips64", "ppc", "ppc64",
         "sparc", "riscv", "riscv64"}

\* context_flags_ values: a CPU type in the bits of MD_CONTEXT_CPU_MASK and
\* the low (non-CPU) flag bits.
ContextFlags == [cpu : CPUs \cup {"unknown"}, low : {0, 1}]

\* Register indexes of the raw contexts (fixed by the minidump format).
MD_CONTEXT_ARM_REG_SP == 13
MD_CONTEXT_ARM_REG_PC == 15
MD_CONTEXT_ARM64_REG_SP == 31
MD_CONTEXT_ARM64_REG_PC == 32
MD_CONTEXT_MIPS_REG_SP == 29
MD_CONTEXT_PPC_REG_SP == 1
MD_CONTEXT_PPC64_REG_SP == 1
MD_CONTEXT_SPARC_REG_SP == 14
MD_CONTEXT_RISCV_REG_SP == 2

\* A raw context record: every register holds a value that differs from that
\* of every other register of the record, so that reading the wrong register
\* shows.  Named fields are numbered from 100.
FieldNo == [eip |-> 100, esp |-> 101, ebp |-> 102, rip |-> 103, rsp |-> 104,
            rbp |-> 105, srr0 |-> 106, pc |-> 107, epc |-> 108, npc |-> 109]

RegValue(seed, n) == seed * 1000 + n

RawContext(cpu, seed) ==
  [cpu |-> cpu,
   field |-> [f \in DOMAIN FieldNo |-> RegValue(seed, FieldNo[f])],
   reg |-> [i \in 0..32 |-> RegValue(seed, i)]]

RawContexts == {RawContext(c, s) : c \in CPUs, s \in 1..MaxSeed}

\* The null context pointer.
NULL == [cpu |-> "NULL", field |-> <<>>, reg |-> <<>>]

\* DumpContext::GetContextCPU
GetContextCPU ==
  IF ~valid_ THEN "none" ELSE context_flags_.cpu

\* DumpContext::GetContextX86 and its siblings: the stored record when the
\* flags name that CPU, NULL otherwise.
GetContextFor(cpus) ==
  IF GetContextCPU \notin cpus THEN NULL ELSE context_

GetContextAMD64 == GetContextFor({"amd64"})
GetContextARM == GetContextFor({"arm"})
GetContextARM64 == GetContextFor({"arm64"})
GetContextPPC == GetContextFor({"ppc"})
GetContextPPC64 == GetContextFor({"ppc64"})
GetContextSPARC == GetContextFor({"sparc"})
GetContextX86 == GetContextFor({"x86"})
GetContextMIPS == GetContextFor({"mips", "mips64"})

\* The result of an accessor: [ret |-> what it returns, out |-> what it
\* stored through its pointer argument].
Got(v) == [ret |-> TRUE, out |-> v]
NotGot == [ret |-> FALSE, out |-> 0]

\* DumpContext::GetInstructionPointer
GetInstructionPointerResult ==
  IF ~valid_ THEN NotGot
  ELSE CASE GetContextCPU = "amd64" -> Got(GetContextAMD64.field.rip)
         [] GetContextCPU = "arm" -> Got(GetContextARM.reg[MD_CONTEXT_ARM_REG_PC])
         [] GetContextCPU = "arm64" -> Got(GetContextARM64.reg[MD_CONTEXT_ARM64_REG_PC])
         [] GetContextCPU = "ppc" -> Got(GetContextPPC.field.srr0)
         [] GetContextCPU = "ppc64" -> Got(GetContextPPC64.field.srr0)
         [] GetContextCPU = "sparc" -> Got(GetContextSPARC.field.pc)
         [] GetContextCPU = "x86" -> Got(GetContextX86.field.eip)
         [] GetContextCPU \in {"mips", "mips64"} -> Got(GetContextMIPS.field.epc)
         [] OTHER -> NotGot

\* DumpContext::GetStackPointer
GetStackPointerResult ==
  IF ~valid_ THEN NotGot
  ELSE CASE GetContextCPU = "amd64" -> Got(GetContextAMD64.field.rsp)
         [] GetContextCPU = "arm" -> Got(GetContextARM.reg[MD_CONTEXT_ARM_REG_SP])
         [] GetContextCPU = "arm64" -> Got(GetContextARM64.reg[MD_CONTEXT_ARM64_REG_SP])
         [] GetContextCPU = "ppc" -> Got(GetContextPPC.reg[MD_CONTEXT_PPC_REG_SP])
         [] GetContextCPU = "ppc64" -> Got(GetContextPPC64.reg[MD_CONTEXT_PPC64_REG_SP])
         [] GetContextCPU = "sparc" -> Got(GetContextSPARC.reg[MD_CONTEXT_SPARC_REG_SP])
         [] GetContextCPU = "x86" -> Got(GetContextX86.field.esp)
         [] GetContextCPU \in {"mips", "mips64"} ->
              Got(GetContextMIPS.reg[MD_CONTEXT_MIPS_REG_SP])
         [] OTHER -> NotGot

Call(op, result) ==
  [op |-> op, ret |-> result.ret, out |-> result.out,
   valid |-> valid_, context |-> context_]

NoCall == [op |-> "none", ret |-> FALSE, out |-> 0, valid |-> FALSE,
           context |-> NULL]

\* DumpContext::DumpContext
DCInit ==
  /\ valid_ = FALSE
  /\ context_flags_ = [cpu |-> "unknown", low |-> 0]
  /\ context_ = NULL
  /\ dc_call = NoCall

\* The reading subclass stores a context record of the dump: FreeContext,
\* then SetContextFlags and the SetContext* of the record's CPU, and valid_.
ReadContext(raw, low) ==
  /\ valid_' = TRUE
  /\ context_flags_' = [cpu |-> raw.cpu, low |-> low]
  /\ context_' = raw
  /\ UNCHANGED <<dc_call, dc_others>>

\* DumpContext::FreeContext, as the reading subclass calls it when a read
\* fails (valid_ stays false).
FreeContext ==
  /\ valid_' = FALSE
  /\ context_flags_' = [cpu |-> "unknown", low |-> 0]
  /\ context_' = NULL
  /\ UNCHANGED <<dc_call, dc_others>>

GetInstructionPointer ==
  /\ dc_call' = Call("ip", GetInstructionPointerResult)
  /\ UNCHANGED <<valid_, context_flags_, context_, dc_others>>

GetStackPointer ==
  /\ dc_call' = Call("sp", GetStackPointerResult)
  /\ UNCHANGED <<valid_, context_flags_, context_, dc_others>>

DCNext ==
  \/ \E raw \in RawContexts, low \in {0, 1} : ReadContext(raw, low)
  \/ FreeContext
  \/ GetInstructionPointer
  \/ GetStackPointer

(***************************************************************************)
(*              ProcessState and the report printers                       *)
(***************************************************************************)

\* Bounds on the dumps the processor assembles.
MaxThreads == 2
MaxFrames == 2
MaxModules == 2

Max(S) == CHOOSE x \in S : \A y \in S : y <= x

\* Text is a sequence of characters.
kOutputSeparator == "|"

\* StripSeparator: |original| without kOutputSeparator and newlines.
StripSeparator(original) ==
  SelectSeq(original, LAMBDA c : c # kOutputSeparator /\ c # "\n")

\* PathnameStripper::File: the part of |path| after its last '/' or '\'.
PathnameStripperFile(path) ==
  LET slashes == {i \in 1..Len(path) : path[i] \in {"/", "\\"}}
  IN IF slashes = {} THEN path ELSE SubSeq(path, Max(slashes) + 1, Len(path))

\* The code modules a dump may list, by load order.  Two modules may carry
\* the same debug file and debug identifier.
ModuleSize == 4096
ModuleBases == {0, ModuleSize}
CodeFiles == << <<"/", "b", "/", "a", "p", "p">>, <<"/", "l", "/", "s", "o">> >>
DebugFile == <<"/", "d", "/", "p", "d", "b">>
DebugIds == {<<"I", "D", "1", "0">>, <<"I", "D", "2", "0">>}

CodeModule(seq, base, id) ==
  [base_address |-> base + (seq - 1) * ModuleSize, size |-> ModuleSize,
   code_file |-> CodeFiles[((seq - 1) % Len(CodeFiles)) + 1], version |-> <<>>,
   debug_file |-> DebugFile, debug_identifier |-> id]

ModuleLists ==
  UNION {{[i \in 1..n |-> CodeModule(i, base, ids[i])] :
            base \in ModuleBases, ids \in [1..n -> DebugIds]} : n \in 0..MaxModules}

\* The module lists whose modules all have different debug identifiers.
DistinctModuleLists ==
  {modules \in ModuleLists :
     \A i, j \in 1..Len(modules) :
       modules[i].debug_identifier = modules[j].debug_identifier => i = j}

\* Stack frames.  module is the sequence number of the frame's module in the
\* module list, 0 when the frame has none (a null pointer).
StackFrame(thread, index, m, modules) ==
  [instruction |-> (IF m = 0 THEN 3 * ModuleSize * MaxModules
                    ELSE modules[m].base_address) + 16 * (index + 2) + thread,
   module |-> m,
   function_name |-> IF m = 1 THEN <<"f", "|", "n">> ELSE <<>>,
   function_base |-> IF m = 1 THEN modules[m].base_address + 8 ELSE 0,
   source_file_name |-> IF m = 1 /\ index = 0 THEN <<"/", "s", "/", "f", ".", "c">>
                        ELSE <<>>,
   source_line |-> IF m = 1 /\ index = 0 THEN 7 ELSE 0,
   source_line_base |-> IF m = 1 /\ index = 0 THEN modules[m].base_address + 12
                        ELSE 0,
   trust |-> IF index = 0 THEN "FRAME_TRUST_CONTEXT" ELSE "FRAME_TRUST_CFI"]

\* A call stack of thread |thread| whose frames lie in the modules |ms|.
CallStack(thread, ms, modules) ==
  [i \in 1..Len(ms) |-> StackFrame(thread, i - 1, ms[i], modules)]

SeqsUpTo(S, n) == UNION {[1..k -> S] : k \in 0..n}

ThreadLists(modules) ==
  {[t \in 1..Len(shape) |-> CallStack(t - 1, shape[t], modules)] :
     shape \in SeqsUpTo(SeqsUpTo(0..Len(modules), MaxFrames), MaxThreads)}

CrashReason == <<"S", "E", "G", "V">>
CrashAddress == 64

\* The process states MinidumpProcessor::Process hands to the printers.
\* requesting_thread is -1 when the requesting thread is unknown; modules is
\* the module list, has_modules whether modules() is a non-null pointer; the
\* two symbol lists hold pointers to modules of the list (sequence numbers).
ProcessStateOf(cpu, crashed, requesting, threads, has_modules, modules, without, corrupt) ==
  [cpu |-> cpu, crashed |-> crashed,
   crash_reason |-> IF crashed THEN CrashReason ELSE <<>>,
   crash_address |-> IF crashed THEN CrashAddress ELSE 0,
   requesting_thread |-> requesting,
   threads |-> threads, has_modules |-> has_modules, modules |-> modules,
   modules_without_symbols |-> without,
   modules_with_corrupt_symbols |-> corrupt]

Cpus == {"amd64", "arm64"}

\* Dumps with any thread list, all of whose modules have symbols.
ThreadRichStates(cpus) ==
  UNION {{ProcessStateOf(cpu, crashed, req, mt[2], has, mt[1], {}, {}) :
            cpu \in cpus, crashed \in BOOLEAN,
            req \in {-1} \cup (0..(Len(mt[2]) - 1)),
            has \in IF mt[1] = <<>> THEN BOOLEAN ELSE {TRUE}} :
         mt \in UNION {{<<m, t>> : t \in ThreadLists(m)} : m \in DistinctModuleLists}}

\* Dumps with one single-frame thread and any symbol findings.
ModuleRichStates(cpus) ==
  UNION {{ProcessStateOf(cpu, TRUE, 0,
                         << CallStack(0, <<m>>, modules) >>, TRUE, modules,
                         without, corrupt) :
            cpu \in cpus, m \in 0..Len(modules),
            without \in SUBSET (1..Len(modules)),
            corrupt \in SUBSET (1..Len(modules))} :
         modules \in ModuleLists}

ProcessStates(cpus) == ThreadRichStates(cpus) \cup ModuleRichStates(cpus)

\* ProcessState::ProcessState / Clear
EmptyProcessState ==
  ProcessStateOf("", FALSE, -1, <<>>, FALSE, <<>>, {}, {})

\* What a printer run leaves: how it ended ("ok": it returned;
\* "out_of_range": vector::at or string::erase threw std::out_of_range, which
\* nothing catches; "segv": a null pointer was dereferenced) and the lines it
\* wrote before that.
Ok(lines) == [outcome |-> "ok", lines |-> lines]
Ended(how) == [outcome |-> how, lines |-> <<>>]

\* Sequencing: |b| runs only when |a| returned.
Then(a, b) ==
  IF a.outcome # "ok" THEN a
  ELSE [outcome |-> b.outcome, lines |-> a.lines \o b.lines]

RECURSIVE ThenAll(_)
ThenAll(rs) == IF rs = <<>> THEN Ok(<<>>) ELSE Then(Head(rs), ThenAll(Tail(rs)))

\* StackFrame::ReturnAddress
ReturnAddress(frame) == frame.instruction

\* CodeModules::GetMainModule: the sequence number of the main module, 0
\* (a null pointer) when the list has none.
GetMainModule(modules) == IF Len(modules) = 0 THEN 0 ELSE 1

NoText == <<>>

FrameLine(thread, index, module, function, file, line, relative_to, has_address, address) ==
  [kind |-> "frame", thread |-> thread, index |-> index, module |-> module,
   function |-> function, source_file |-> file, source_line |-> line,
   relative_to |-> relative_to, has_address |-> has_address,
   address |-> address]

\* The marker of one call of a stack printer for the stack of |thread|.
StackCall(thread) == [kind |-> "stack", thread |-> thread]

\* PrintStack, one frame.
PrintStackFrame(thread, frame_index, frame, modules) ==
  LET instruction_address == ReturnAddress(frame)
  IN IF frame.module # 0
     THEN LET module == modules[frame.module]
              file == PathnameStripperFile(module.code_file)
          IN IF frame.function_name # <<>>
             THEN IF frame.source_file_name # <<>>
                  THEN FrameLine(thread, frame_index, file, frame.function_name,
                                 PathnameStripperFile(frame.source_file_name),
                                 frame.source_line, "source_line", TRUE,
                                 instruction_address - frame.source_line_base)
                  ELSE FrameLine(thread, frame_index, file, frame.function_name,
                                 NoText, 0, "function", TRUE,
                                 instruction_address - frame.function_base)
             ELSE FrameLine(thread, frame_index, file, NoText, NoText, 0,
                            "module", TRUE,
                            instruction_address - module.base_address)
     ELSE FrameLine(thread, frame_index, NoText, NoText, NoText, 0, "nothing",
                    TRUE, instruction_address)

\* PrintStack
PrintStack(thread, stack, modules) ==
  Ok(<<StackCall(thread)>>
     \o (IF Len(stack) = 0 THEN <<[kind |-> "no_frames", thread |-> thread]>>
         ELSE <<>>)
     \o [i \in 1..Len(stack) |-> PrintStackFrame(thread, i - 1, stack[i], modules)])

\* PrintStackMachineReadable, one frame.
PrintStackMachineReadableFrame(thread_num, frame_index, frame, modules) ==
  LET instruction_address == ReturnAddress(frame)
  IN IF frame.module # 0
     THEN LET module == modules[frame.module]
              file == StripSeparator(PathnameStripperFile(module.code_file))
          IN IF frame.function_name # <<>>
             THEN IF frame.source_file_name # <<>>
                  THEN FrameLine(thread_num, frame_index, file,
                                 StripSeparator(frame.function_name),
                                 StripSeparator(frame.source_file_name),
                                 frame.source_line, "source_line", TRUE,
                                 instruction_address - frame.source_line_base)
                  ELSE FrameLine(thread_num, frame_index, file,
                                 StripSeparator(frame.function_name),
                                 NoText, 0, "function", TRUE,
                                 instruction_address - frame.function_base)
             ELSE FrameLine(thread_num, frame_index, file, NoText, NoText, 0,
                            "module", TRUE,
                            instruction_address - module.base_address)
     ELSE FrameLine(thread_num, frame_index, NoText, NoText, NoText, 0,
                    "nothing", TRUE, instruction_address)

\* PrintStackMachineReadable
PrintStackMachineReadable(thread_num, stack, modules) ==
  Ok(<<StackCall(thread_num)>>
     \o [i \in 1..Len(stack) |->
           PrintStackMachineReadableFrame(thread_num, i - 1, stack[i], modules)])

\* PrintStackAppleCrashReport, one frame: a frame without a module gets its
\* index and nothing else.
PrintStackAppleCrashReportFrame(thread_num, frame_index, frame, modules) ==
  LET instruction_address == ReturnAddress(frame)
  IN IF frame.module # 0
     THEN LET module == modules[frame.module]
          IN FrameLine(thread_num, frame_index,
                       StripSeparator(PathnameStripperFile(module.code_file)),
                       NoText, NoText, 0, "nothing", TRUE, instruction_address)
     ELSE FrameLine(thread_num, frame_index, NoText, NoText, NoText, 0,
                    "nothing", FALSE, 0)

\* PrintStackAppleCrashReport
PrintStackAppleCrashReport(thread_num, stack, modules) ==
  Ok(<<StackCall(thread_num)>>
     \o [i \in 1..Len(stack) |->
           PrintStackAppleCrashReportFrame(thread_num, i - 1, stack[i], modules)])

\* vector::at with the int |index| converted to size_t: a negative index is
\* out of range like one past the end.
InRange(vector, index) == 0 <= index /\ index < Len(vector)

\* PrintThreadStateAppleCrashReport
PrintThreadStateAppleCrashReport(ps) ==
  LET heading == Ok(<<[kind |-> "thread_state",
                       thread |-> ps.requesting_thread]>>)
  IN IF ~InRange(ps.threads, ps.requesting_thread)
     THEN Then(heading, Ended("out_of_range"))
     ELSE LET stack == ps.threads[ps.requesting_thread + 1]
          IN IF Len(stack) = 0
             THEN Then(heading,
                       Then(Ok(<<[kind |-> "no_frames",
                                  thread |-> ps.requesting_thread]>>),
                            Ended("out_of_range")))
             ELSE Then(heading,
                       Ok(IF ps.cpu \in {"arm", "arm64"}
                          THEN <<[kind |-> "registers",
                                  thread |-> ps.requesting_thread, index |-> 0]>>
                          ELSE <<>>))

\* ContainsModule: whether |modules| (pointers into the list |all|) holds a
\* module with the debug file and debug identifier of |module|.
ContainsModule(modules, module, all) ==
  \E iter \in modules :
    /\ module.debug_file = all[iter].debug_file
    /\ module.debug_identifier = all[iter].debug_identifier

ModuleLine(sequence, module, main, symbol_issues) ==
  [kind |-> "module", sequence |-> sequence,
   base_address |-> module.base_address,
   code_file |-> PathnameStripperFile(module.code_file),
   main |-> main, symbol_issues |-> symbol_issues]

\* PrintModule
PrintModule(sequence, all, modules_without_symbols, modules_with_corrupt_symbols, main_address) ==
  LET module == all[sequence]
      symbol_issues ==
        IF ContainsModule(modules_without_symbols, module, all)
        THEN "No symbols"
        ELSE IF ContainsModule(modules_with_corrupt_symbols, module, all)
             THEN "Corrupt symbols"
             ELSE ""
  IN ModuleLine(sequence, module,
                main_address # 0 /\ module.base_address = main_address,
                symbol_issues)

\* PrintModules
PrintModules(ps) ==
  IF ~ps.has_modules THEN Ok(<<>>)
  ELSE LET main_module == GetMainModule(ps.modules)
           main_address == IF main_module # 0
                           THEN ps.modules[main_module].base_address ELSE 0
       IN Ok(<<[kind |-> "modules_heading"]>>
             \o [module_sequence \in 1..Len(ps.modules) |->
                   PrintModule(module_sequence, ps.modules,
                               ps.modules_without_symbols,
                               ps.modules_with_corrupt_symbols, main_address)])

\* PrintModulesMachineReadable
PrintModulesMachineReadable(ps) ==
  IF ~ps.has_modules THEN Ok(<<>>)
  ELSE LET main_module == GetMainModule(ps.modules)
           main_address == IF main_module # 0
                           THEN ps.modules[main_module].base_address ELSE 0
       IN Ok([module_sequence \in 1..Len(ps.modules) |->
                LET module == ps.modules[module_sequence]
                IN [kind |-> "module", sequence |-> module_sequence,
                    base_address |-> module.base_address,
                    code_file |-> StripSeparator(
                                    PathnameStripperFile(module.code_file)),
                    main |-> main_module # 0
                             /\ module.base_address = main_address,
                    symbol_issues |-> ""]])

\* PrintModulesAppleCrashReport: the last character of the debug identifier
\* is erased, which throws when the identifier is empty.
RECURSIVE PrintModulesAppleFrom(_, _)
PrintModulesAppleFrom(ps, module_sequence) ==
  IF module_sequence > Len(ps.modules) THEN Ok(<<>>)
  ELSE LET module == ps.modules[module_sequence]
       IN IF Len(module.debug_identifier) = 0 THEN Ended("out_of_range")
          ELSE Then(Ok(<<[kind |-> "module", sequence |-> module_sequence,
                          base_address |-> module.base_address,
                          code_file |-> PathnameStripperFile(module.code_file),
                          debug_id |-> SubSeq(module.debug_identifier, 1,
                                              Len(module.debug_identifier) - 1),
                          main |-> FALSE, symbol_issues |-> ""]>>),
                    PrintModulesAppleFrom(ps, module_sequence + 1))

PrintModulesAppleCrashReport(ps) ==
  IF ~ps.has_modules THEN Ok(<<>>)
  ELSE Then(Ok(<<[kind |-> "modules_heading"]>>), PrintModulesAppleFrom(ps, 1))

CrashLine(reason, has_address, address) ==
  [kind |-> "crash", reason |-> reason, has_address |-> has_address,
   address |-> address]

ThreadLine(thread, note) == [kind |-> "thread", thread |-> thread, note |-> note]

\* The threads after the requesting one, in PrintProcessState.
OtherThreads(ps, requesting_thread) ==
  ThenAll([t \in 1..Len(ps.threads) |->
             IF t - 1 # requesting_thread
             THEN Then(Ok(<<ThreadLine(t - 1, "")>>),
                       PrintStack(t - 1, ps.threads[t], ps.modules))
             ELSE Ok(<<>>)])

\* PrintProcessState.  thread_memory_regions() is as long as threads().
PrintProcessState(ps, output_stack_contents, output_requesting_thread_only) ==
  LET requesting_thread == ps.requesting_thread
  IN ThenAll(<<
       Ok(<<[kind |-> "system", cpu |-> ps.cpu]>>),
       Ok(<<IF ps.crashed
            THEN CrashLine(ps.crash_reason, TRUE, ps.crash_address)
            ELSE [kind |-> "no_crash"]>>),
       IF requesting_thread # -1
       THEN IF InRange(ps.threads, requesting_thread)
            THEN Then(Ok(<<ThreadLine(requesting_thread,
                                      IF ps.crashed THEN "crashed"
                                      ELSE "requested dump, did not crash")>>),
                      PrintStack(requesting_thread,
                                 ps.threads[requesting_thread + 1], ps.modules))
            ELSE Ended("out_of_range")
       ELSE Ok(<<>>),
       IF ~output_requesting_thread_only
       THEN OtherThreads(ps, requesting_thread)
       ELSE Ok(<<>>),
       PrintModules(ps) >>)

\* PrintProcessStateMachineReadable
PrintProcessStateMachineReadable(ps) ==
  LET requesting_thread == ps.requesting_thread
  IN ThenAll(<<
       Ok(<<[kind |-> "system", cpu |-> StripSeparator(<<ps.cpu>>)[1]]>>),
       Ok(<<IF ps.crashed
            THEN CrashLine(StripSeparator(ps.crash_reason), TRUE,
                           ps.crash_address)
            ELSE [kind |-> "no_crash"]>>),
       Ok(<<[kind |-> "crashed_thread", known |-> requesting_thread # -1,
             thread |-> requesting_thread]>>),
       PrintModulesMachineReadable(ps),
       IF requesting_thread # -1
       THEN IF InRange(ps.threads, requesting_thread)
            THEN PrintStackMachineReadable(requesting_thread,
                                           ps.threads[requesting_thread + 1],
                                           ps.modules)
            ELSE Ended("out_of_range")
       ELSE Ok(<<>>),
       ThenAll([t \in 1..Len(ps.threads) |->
                  IF t - 1 # requesting_thread
                  THEN PrintStackMachineReadable(t - 1, ps.threads[t], ps.modules)
                  ELSE Ok(<<>>)]) >>)

\* What a read through a null pointer may yield when it does not trap.
Garbage == <<"?">>

\* The head of PrintProcessStateAppleCrashReport: the main module's code
\* file, read through modules()->GetMainModule() without a null check.  With
\* no module list or no main module the read is undefined: the run traps, or
\* goes on with whatever the read yields.
AppleCrashReportProcess(ps) ==
  IF ps.has_modules /\ GetMainModule(ps.modules) # 0
  THEN {Ok(<<[kind |-> "process",
              name |-> PathnameStripperFile(
                         ps.modules[GetMainModule(ps.modules)].code_file)]>>)}
  ELSE {Ended("segv"), Ok(<<[kind |-> "process", name |-> Garbage]>>)}

\* PrintProcessStateAppleCrashReport after the head.
AppleCrashReportRest(ps) ==
  LET requesting_thread == ps.requesting_thread
  IN ThenAll(<<
       Ok(<<[kind |-> "system", cpu |-> ps.cpu]>>),
       Ok(<<CrashLine(ps.crash_reason, FALSE, 0)>>),
       Ok(<<[kind |-> "crashed_thread", known |-> TRUE,
             thread |-> requesting_thread]>>),
       ThenAll([t \in 1..Len(ps.threads) |->
                  Then(Ok(<<ThreadLine(t - 1,
                                       IF requesting_thread = t - 1 /\ ps.crashed
                                       THEN "Crashed" ELSE "")>>),
                       PrintStackAppleCrashReport(t - 1, ps.threads[t],
                                                  ps.modules))]),
       PrintThreadStateAppleCrashReport(ps),
       PrintModulesAppleCrashReport(ps) >>)

\* PrintProcessStateAppleCrashReport: the runs it may take.
PrintProcessStateAppleCrashReport(ps) ==
  {Then(process, AppleCrashReportRest(ps)) : process \in AppleCrashReportProcess(ps)}

NoReport == [printer |-> "none", requesting_thread_only |-> FALSE,
             outcome |-> "ok", lines |-> <<>>]

Report(printer, only, run) ==
  [printer |-> printer, requesting_thread_only |-> only,
   outcome |-> run.outcome, lines |-> run.lines]

PSInit ==
  /\ process_state = EmptyProcessState
  /\ report = NoReport

Processed == process_state # EmptyProcessState

\* MinidumpProcessor::Process fills the ProcessState, once.
Process ==
  /\ ~Processed
  /\ \E ps \in ProcessStates(Cpus) : process_state' = ps
  /\ report' = NoReport
  /\ UNCHANGED ps_others

\* minidump_stackwalk prints one report of the process state.
Unreported == Processed /\ report = NoReport

DoPrintProcessState(output_stack_contents, output_requesting_thread_only) ==
  /\ Unreported
  /\ report' = Report("PrintProcessState", output_requesting_thread_only,
                      PrintProcessState(process_state, output_stack_contents,
                                        output_requesting_thread_only))
  /\ UNCHANGED <<process_state, ps_others>>

DoPrintProcessStateMachineReadable ==
  /\ Unreported
  /\ report' = Report("PrintProcessStateMachineReadable", FALSE,
                      PrintProcessStateMachineReadable(process_state))
  /\ UNCHANGED <<process_state, ps_others>>

DoPrintProcessStateAppleCrashReport ==
  /\ Unreported
  /\ \E run \in PrintProcessStateAppleCrashReport(process_state) :
       report' = Report("PrintProcessStateAppleCrashReport", FALSE, run)
  /\ UNCHANGED <<process_state, ps_others>>

PSNext ==
  \/ Process
  \/ \E contents, only \in BOOLEAN : DoPrintProcessState(contents, only)
  \/ DoPrintProcessStateMachineReadable
  \/ DoPrintProcessStateAppleCrashReport

(***************************************************************************)
(*                         LongStringDictionary                            *)
(*                                                                         *)
(* Two revisions of common/long_string_dictionary.h are in the repository: *)
(* part_000 (SetKeyValue removes the key first, GetValueForKey looks for   *)
(* the plain entry first) and part_002 (SetKeyValue does not remove,       *)
(* GetValueForKey looks for the segments first).  A dictionary is of one   *)
(* revision.  Strings are sequences of characters.  The base class         *)
(* SimpleStringDictionary is a fixed table of num_entries entries whose    *)
(* keys and values are truncated to key_size - 1 and value_size - 1.       *)
(***************************************************************************)

\* Table sizes, scaled down (256, 256 and 64 in the program), and the number
\* of segment suffixes (10 in the program).
value_size == 2
key_size == 6
num_entries == 5
max_segment_count == 3

\* Number of different texts of each length that the callers store.
MaxTag == 2

kMaxSuffixLength == 4
max_suffix_length == 4

Revisions == {"part_000", "part_002"}

Min(a, b) == IF a < b THEN a ELSE b

Digits == <<"0", "1", "2", "3", "4", "5", "6", "7", "8", "9">>

RECURSIVE Decimal(_)
Decimal(n) ==
  IF n < 10 THEN <<Digits[n + 1]>>
  ELSE Decimal(n \div 10) \o <<Digits[(n % 10) + 1]>>

kSuffixes == [i \in 1..max_segment_count |-> <<"_", "_">> \o Decimal(i)]

\* A const char* is NullValue or points to a string.
NullValue == <<>>
Pointer(string) == <<string>>
Target(pointer) == pointer[1]

\* The keys the callers use.  They leave room for a suffix and do not end in
\* one.
Keys == {<<"a">>, <<"b">>}

\* The values the callers store: every length up to one more than the
\* longest that can be segmented; character i of text t is 100 * t + i.
MaxValueLength == (value_size - 1) * max_segment_count + 1
Value(tag, length) == [i \in 1..length |-> 100 * tag + i]
Values == {Value(tag, length) : tag \in 1..MaxTag, length \in 1..MaxValueLength}
ValuePointers == {NullValue} \cup {Pointer(v) : v \in Values}

Truncated(string, n) == SubSeq(string, 1, Min(Len(string), n))

NoEntries == [key \in {} |-> <<>>]
Dictionary(entries, dropped) == [entries |-> entries, dropped |-> dropped]

GetCount(entries) == Cardinality(DOMAIN entries)

GetConstEntryForKey(entries, key) ==
  IF key \in DOMAIN entries THEN Pointer(entries[key]) ELSE NullValue

SimpleStringDictionaryGetValueForKey(entries, key) ==
  GetConstEntryForKey(entries, key)

\* Overwrites the entry of the key, else takes a free entry; without a free
\* entry the call silently does nothing (noted in "dropped").
SimpleStringDictionarySetKeyValue(d, key, value) ==
  LET k == Truncated(key, key_size - 1)
      v == Truncated(value, value_size - 1)
  IN IF k \in DOMAIN d.entries
       THEN Dictionary([d.entries EXCEPT ![k] = v], d.dropped)
     ELSE IF GetCount(d.entries) < num_entries
       THEN Dictionary(d.entries @@ (k :> v), d.dropped)
     ELSE Dictionary(d.entries, TRUE)

Without(entries, key) == [k \in DOMAIN entries \ {key} |-> entries[k]]

SimpleStringDictionaryRemoveKey(d, key) ==
  [d |-> Dictionary(Without(d.entries, key), d.dropped),
   removed |-> key \in DOMAIN d.entries]

\* ---- part_000 ----

ValidValueForSegment(value) ==
  ~ (Len(value) <= value_size - 1
       \/ Len(value) > (value_size - 1) * max_segment_count)

RECURSIVE Part000RemoveSegments(_, _, _)
Part000RemoveSegments(d, key, i) ==
  IF i > max_segment_count THEN [d |-> d, removed |-> TRUE]
  ELSE LET r == SimpleStringDictionaryRemoveKey(d, key \o kSuffixes[i])
       IN IF ~ r.removed THEN [d |-> d, removed |-> i # 1]
          ELSE Part000RemoveSegments(r.d, key, i + 1)

\* A RemoveKey that forgets the segment entries.
Part000RemoveKeyPlainOnly(d, key) ==
  SimpleStringDictionaryRemoveKey(d, key)

Part000RemoveKey(d, key) ==
  LET r == SimpleStringDictionaryRemoveKey(d, key)
  IN IF r.removed THEN r ELSE Part000RemoveSegments(d, key, 1)

RECURSIVE Part000SetSegments(_, _, _, _)
Part000SetSegments(d, key, remain_value, i) ==
  IF i > max_segment_count THEN d
  ELSE IF Len(remain_value) <= 0 THEN d
  ELSE LET segment_value_length == Min(Len(remain_value), value_size - 1)
           segment_value == SubSeq(remain_value, 1, segment_value_length)
           rest == SubSeq(remain_value, segment_value_length + 1,
                          Len(remain_value))
       IN Part000SetSegments(
            SimpleStringDictionarySetKeyValue(d, key \o kSuffixes[i],
                                              segment_value),
            key, rest, i + 1)

Part000SetKeyValue(d, key, value) ==
  LET removed == Part000RemoveKey(d, key).d
  IN IF value = NullValue THEN removed
     ELSE IF key = <<>> THEN removed
     ELSE IF ~ ValidValueForSegment(Target(value))
       THEN SimpleStringDictionarySetKeyValue(removed, key, Target(value))
     ELSE Part000SetSegments(removed, key, Target(value), 1)

RECURSIVE Part000GetSegments(_, _, _)
Part000GetSegments(entries, key, i) ==
  IF i > max_segment_count THEN <<>>
  ELSE LET segment_value ==
             SimpleStringDictionaryGetValueForKey(entries, key \o kSuffixes[i])
       IN IF segment_value # NullValue
            THEN <<Target(segment_value)>>
                   \o Part000GetSegments(entries, key, i + 1)
          ELSE <<>>

RECURSIVE Concatenated(_)
Concatenated(strings) ==
  IF strings = <<>> THEN <<>>
  ELSE Head(strings) \o Concatenated(Tail(strings))

Part000GetValueForKey(entries, key) ==
  IF key = <<>> THEN NullValue
  ELSE LET value == SimpleStringDictionaryGetValueForKey(entries, key)
           segments == Part000GetSegments(entries, key, 1)
           found_segment == segments # <<>>
       IN IF value # NullValue THEN value
          ELSE IF found_segment THEN Pointer(Concatenated(segments))
          ELSE NullValue

\* ---- part_002 ----

ValidKey(key) == ~ (Len(key) + max_suffix_length > key_size - 1)

ValidValue(value) ==
  ~ (Len(value) <= value_size - 1
       \/ Len(value) > (value_size - 1) * max_segment_count)

RECURSIVE Part002RemoveSegments(_, _, _)
Part002RemoveSegments(d, key, i) ==
  IF i > max_segment_count THEN d
  ELSE IF GetConstEntryForKey(d.entries, key \o kSuffixes[i]) # NullValue
    THEN Part002RemoveSegments(
           SimpleStringDictionaryRemoveKey(d, key \o kSuffixes[i]).d,
           key, i + 1)
  ELSE d

Part002RemoveKey(d, key) ==
  LET removed == SimpleStringDictionaryRemoveKey(d, key).d
  IN IF Len(key) + max_suffix_length > key_size - 1 THEN removed
     ELSE Part002RemoveSegments(removed, key, 1)

RECURSIVE Part002SetSegments(_, _, _, _, _)
Part002SetSegments(d, key, value, remain_value_index, i) ==
  LET remain_value_length == Len(value) - remain_value_index
  IN IF i > max_segment_count THEN d
     ELSE IF remain_value_length > value_size - 1
       THEN Part002SetSegments(
              SimpleStringDictionarySetKeyValue(d, key \o kSuffixes[i],
                SubSeq(value, remain_value_index + 1,
                       remain_value_index + (value_size - 1))),
              key, value, remain_value_index + (value_size - 1), i + 1)
     ELSE IF remain_value_length > 0
       THEN Part002SetSegments(
              SimpleStringDictionarySetKeyValue(d, key \o kSuffixes[i],
                SubSeq(value, remain_value_index + 1, Len(value))),
              key, value, Len(value), i + 1)
     ELSE d

Part002SetKeyValue(d, key, value) ==
  IF value = NullValue THEN Part002RemoveKey(d, key)
  ELSE IF key = <<>> THEN d
  ELSE IF ~ ValidKey(key) \/ ~ ValidValue(Target(value))
    THEN SimpleStringDictionarySetKeyValue(d, key, Target(value))
  ELSE Part002SetSegments(d, key, Target(value), 0, 1)

RECURSIVE Part002GetSegments(_, _, _)
Part002GetSegments(entries, key, i) ==
  IF i > max_segment_count THEN <<>>
  ELSE LET entry == GetConstEntryForKey(entries, key \o kSuffixes[i])
       IN IF entry # NullValue
            THEN <<Target(entry)>> \o Part002GetSegments(entries, key, i + 1)
          ELSE <<>>

Part002GetValueForKey(entries, key) ==
  IF key = <<>> THEN NullValue
  ELSE LET segments == IF ValidKey(key)
                         THEN Part002GetSegments(entries, key, 1) ELSE <<>>
           found_segment == segments # <<>>
       IN IF found_segment THEN Pointer(Concatenated(segments))
          ELSE GetConstEntryForKey(entries, key)

\* ---- the dictionary object and its callers ----

\* part_000 asserts that a key leaves room for a suffix; part_002 tests it.
CallerKeys ==
  IF revision = "part_000"
    THEN {key \in Keys : Len(key) + kMaxSuffixLength <= key_size - 1}
  ELSE Keys

LongStringDictionaryGetValueForKey(entries, key) ==
  IF revision = "part_000" THEN Part000GetValueForKey(entries, key)
  ELSE Part002GetValueForKey(entries, key)

LSDCall(op, key, value, removed) ==
  [op |-> op, key |-> key, value |-> value, removed |-> removed,
   count |-> GetCount(entries_)]

LSDNoCall ==
  [op |-> "none", key |-> <<>>, value |-> NullValue, removed |-> FALSE,
   count |-> 0]

LSDInit ==
  /\ revision \in Revisions
  /\ entries_ = NoEntries
  /\ lsd_dropped = FALSE
  /\ lsd_last = [key \in Keys |-> NullValue]
  /\ lsd_call = LSDNoCall

SetKeyValue(key, value) ==
  /\ key \in CallerKeys
  /\ LET d == IF revision = "part_000"
                THEN Part000SetKeyValue(Dictionary(entries_, lsd_dropped),
                                        key, value)
              ELSE Part002SetKeyValue(Dictionary(entries_, lsd_dropped),
                                      key, value)
     IN /\ entries_' = d.entries
        /\ lsd_dropped' = d.dropped
  /\ lsd_last' = [lsd_last EXCEPT ![key] = value]
  /\ lsd_call' = LSDCall("SetKeyValue", key, NullValue, FALSE)
  /\ UNCHANGED <<revision, lsd_others>>

RemoveKey(key) ==
  /\ key \in CallerKeys
  /\ LET r == IF revision = "part_000"
                THEN Part000RemoveKey(Dictionary(entries_, lsd_dropped), key)
              ELSE [d |-> Part002RemoveKey(Dictionary(entries_, lsd_dropped),
                                           key),
                    removed |-> FALSE]
     IN /\ entries_' = r.d.entries
        /\ lsd_dropped' = r.d.dropped
        /\ lsd_call' = LSDCall("RemoveKey", key, NullValue, r.removed)
  /\ lsd_last' = [lsd_last EXCEPT ![key] = NullValue]
  /\ UNCHANGED <<revision, lsd_others>>

GetValueForKey(key) ==
  /\ key \in CallerKeys
  /\ lsd_call' = LSDCall("GetValueForKey", key,
                         LongStringDictionaryGetValueForKey(entries_, key),
                         FALSE)
  /\ UNCHANGED <<revision, entries_, lsd_dropped, lsd_last, lsd_others>>

LSDNext ==
  \/ \E key \in Keys, value \in ValuePointers : SetKeyValue(key, value)
  \/ \E key \in Keys : RemoveKey(key)
  \/ \E key \in Keys : GetValueForKey(key)

(***************************************************************************)
(*                    upload_system_symbols pipeline                       *)
(*                                                                         *)
(* main starts up to three worker pools connected by channels:             *)
(*   main --fq.queue--> find workers --dq.queue--> dump workers            *)
(*        --uq.queue--> upload workers                                     *)
(* With -upload-from only the upload queue runs and main feeds it; with    *)
(* -dump-to there is no upload queue (uq = nil).  log.Fatalf ends the      *)
(* process at once, as does a panic (send on or close of a closed          *)
(* channel).  Paths and file names are sequences of characters.            *)
(***************************************************************************)

\* Pool sizes and channel capacities, scaled down (12, 12, 5 workers and
\* capacities 10, 10 in the program), and the number of files found.
NumFindWorkers == 2
NumDumpWorkers == 2
NumUploadWorkers == 2
FindQueueCap == 1
UploadQueueCap == 1
MaxFiles == 3

FindWorkers == 1..NumFindWorkers
DumpWorkers == 1..NumDumpWorkers
UploadWorkers == 1..NumUploadWorkers

uploadServersV1 ==
  <<"https://clients2.google.com/cr/symbol",
    "https://clients2.google.com/cr/staging_symbol">>

uploadServersV2 ==
  <<"https://staging-crashsymbolcollector-pa.googleapis.com",
    "https://prod-crashsymbolcollector-pa.googleapis.com">>

\* strings.Split(s, "/")
RECURSIVE Split(_)
Split(s) ==
  IF \A i \in 1..Len(s) : s[i] # "/" THEN <<s>>
  ELSE LET i == CHOOSE j \in 1..Len(s) :
                  s[j] = "/" /\ \A k \in 1..(j - 1) : s[k] # "/"
       IN <<SubSeq(s, 1, i - 1)>> \o Split(SubSeq(s, i + 1, Len(s)))

RECURSIVE manglePathFrom(_, _)
manglePathFrom(components, i) ==
  IF i > Len(components) THEN <<>>
  ELSE (IF Len(components[i]) = 0 THEN <<>>
        ELSE IF i < Len(components) THEN SubSeq(components[i], 1, 1)
        ELSE components[i])
       \o manglePathFrom(components, i + 1)

manglePath(path) == manglePathFrom(Split(path), 1)

\* path.Join of a clean directory and a name
PathJoin(dir, name) == dir \o <<"/">> \o name

\* fmt.Sprintf("%s_%s.sym", path.Join(dumpPath, manglePath(req.path)), req.arch)
Symfile(dumpPath, req) ==
  PathJoin(dumpPath, manglePath(req.path)) \o <<"_">> \o req.arch
    \o <<".", "s", "y", "m">>

\* The libraries under the system root, in the order the walk finds them:
\* a fat library, a thin library whose path mangles to the same name, and
\* a file that is not Mach-O.
X86 == <<"x", "8", "6">>
ARM == <<"a", "r", "m">>

Libraries ==
  << [path |-> <<"/", "S", "y", "/", "L", "/", "A", "K">>, arches |-> <<X86, ARM>>],
     [path |-> <<"/", "S", "z", "/", "L", "/", "A", "K">>, arches |-> <<X86>>],
     [path |-> <<"/", "S", "y", "/", "R">>, arches |-> <<>>] >>

FoundFiles == SubSeq(Libraries, 1, Min(MaxFiles, Len(Libraries)))

ArchesOf(fp) ==
  LET i == CHOOSE j \in 1..Len(Libraries) : Libraries[j].path = fp
  IN Libraries[i].arches

\* The directory of -upload-from and the names in it.
UploadDirectory == <<"/", "u">>
UploadEntries ==
  SubSeq(<< <<"a">>, <<"b">>, <<"c">> >>, 1, Min(MaxFiles, 3))

TempDumpPath == <<"/", "t">>
DumpToPath == <<"/", "d">>

Architectures == {<<>>, X86}
ApiKeys == {<<>>, <<"k">>}

\* A channel: nil until made.
NilChan == [made |-> FALSE, buf |-> <<>>, closed |-> FALSE, closes |-> 0]
MakeChan == [made |-> TRUE, buf |-> <<>>, closed |-> FALSE, closes |-> 0]
Close(ch) == [ch EXCEPT !.closed = TRUE, !.closes = @ + 1]
Send(ch, x) == [ch EXCEPT !.buf = Append(@, x)]
Receive(ch) == [ch EXCEPT !.buf = Tail(@)]

NoRequest == [path |-> <<>>, arch |-> <<>>]

FindWorkerAt(pc, fp, arches) == [pc |-> pc, fp |-> fp, arches |-> arches]
DumpWorkerAt(pc, req, symfile) == [pc |-> pc, req |-> req, symfile |-> symfile]

\* worker.StartPool: the goroutines, each about to run workerFunc.
StartPoolFind == [w \in FindWorkers |-> FindWorkerAt("range", <<>>, <<>>)]
StartPoolDump == [w \in DumpWorkers |-> DumpWorkerAt("range", NoRequest, <<>>)]
StartPoolUpload == [w \in UploadWorkers |-> "range"]

NoPoolFind == [w \in FindWorkers |-> FindWorkerAt("none", <<>>, <<>>)]
NoPoolDump == [w \in DumpWorkers |-> DumpWorkerAt("none", NoRequest, <<>>)]
NoPoolUpload == [w \in UploadWorkers |-> "none"]

\* worker.Pool.Wait returns once every goroutine of the pool has returned.
PoolDone(pcs) == \A pc \in pcs : pc = "returned"

FindPoolDone == PoolDone({find_workers[w].pc : w \in FindWorkers})
DumpPoolDone == PoolDone({dump_workers[w].pc : w \in DumpWorkers})
UploadPoolDone == PoolDone({upload_workers[w] : w \in UploadWorkers})

NoFlags == [mode |-> "none", arch |-> <<>>, apiKey |-> <<>>]

\* main's uploadServers: the V2 servers when -api-key is given.
uploadServers == IF Len(flags.apiKey) > 0 THEN uploadServersV2 ELSE uploadServersV1

\* StartUploadQueue builds &UploadQueue{queue: ...}: apiKey and servers are
\* left at their zero values, and nothing assigns them afterwards.
UploadQueue == [apiKey |-> <<>>, servers |-> <<>>]

\* findLibsInRoots builds &findQueue{queue: ..., dq: dq}: dumpArchitecture is
\* left at its zero value, and nothing assigns it afterwards.
findQueue == [dumpArchitecture |-> <<>>]

PLInit ==
  /\ main_pc = "start"
  /\ flags = NoFlags
  /\ pending = <<>>
  /\ fq_queue = NilChan
  /\ dq_queue = NilChan
  /\ uq_queue = NilChan
  /\ find_workers = NoPoolFind
  /\ dump_workers = NoPoolDump
  /\ upload_workers = NoPoolUpload
  /\ symfiles = {}
  /\ dump_log = [r \in {} |-> <<>>]
  /\ symupload_runs = {}

\* os.Exit: the goroutines are gone; what was written stays.
Exit(how) ==
  /\ main_pc' = how
  /\ pending' = <<>>
  /\ find_workers' = [w \in FindWorkers |-> FindWorkerAt("gone", <<>>, <<>>)]
  /\ dump_workers' = [w \in DumpWorkers |-> DumpWorkerAt("gone", NoRequest, <<>>)]
  /\ upload_workers' = [w \in UploadWorkers |-> "gone"]

Running == main_pc \notin {"start", "returned", "fatal", "panic"}

\* ---- main ----

\* main with -upload-from: StartUploadQueue, then UploadFromDirectory reads
\* the directory.
MainUploadFrom(apiKey) ==
  /\ main_pc = "start"
  /\ flags' = [mode |-> "upload-from", arch |-> <<>>, apiKey |-> apiKey]
  /\ uq_queue' = MakeChan
  /\ upload_workers' = StartPoolUpload
  /\ pending' = UploadEntries
  /\ main_pc' = "UploadFromDirectory"
  /\ UNCHANGED <<fq_queue, dq_queue, find_workers, dump_workers, symfiles,
                 dump_log, symupload_runs, pl_others>>

\* UploadFromDirectory: uq.Upload(path.Join(directory, entry)) per entry,
\* then uq.Done().
UploadFromDirectory ==
  /\ main_pc = "UploadFromDirectory"
  /\ IF pending # <<>>
       THEN IF uq_queue.closed
              THEN Exit("panic") /\ UNCHANGED uq_queue
            ELSE /\ Len(uq_queue.buf) < UploadQueueCap
                 /\ uq_queue' = Send(uq_queue, PathJoin(UploadDirectory, Head(pending)))
                 /\ pending' = Tail(pending)
                 /\ UNCHANGED <<main_pc, find_workers, dump_workers, upload_workers>>
     ELSE IF uq_queue.closed
       THEN Exit("panic") /\ UNCHANGED uq_queue
     ELSE /\ uq_queue' = Close(uq_queue)
          /\ main_pc' = "uq.Wait"
          /\ UNCHANGED <<pending, find_workers, dump_workers, upload_workers>>
  /\ UNCHANGED <<flags, fq_queue, dq_queue, symfiles, dump_log,
                 symupload_runs, pl_others>>

\* main without -upload-from: StartUploadQueue unless -dump-to is given, then
\* StartDumpQueue up to the start of the walk in findLibsInRoots.
MainDump(dumpTo, arch, apiKey) ==
  /\ main_pc = "start"
  /\ flags' = [mode |-> IF dumpTo THEN "dump-to" ELSE "pipeline",
               arch |-> arch, apiKey |-> apiKey]
  /\ uq_queue' = IF dumpTo THEN NilChan ELSE MakeChan
  /\ upload_workers' = IF dumpTo THEN NoPoolUpload ELSE StartPoolUpload
  /\ dq_queue' = MakeChan
  /\ dump_workers' = StartPoolDump
  /\ fq_queue' = MakeChan
  /\ find_workers' = StartPoolFind
  /\ pending' = [i \in 1..Len(FoundFiles) |-> FoundFiles[i].path]
  /\ main_pc' = "findLibsInPath"
  /\ UNCHANGED <<symfiles, dump_log, symupload_runs, pl_others>>

\* log.Fatalf in main: a directory that cannot be opened or read, a
\* temporary directory that cannot be made.
MainFatalf ==
  /\ main_pc \in {"start", "findLibsInPath"}
  /\ Exit("fatal")
  /\ UNCHANGED <<flags, fq_queue, dq_queue, uq_queue, symfiles, dump_log,
                 symupload_runs, pl_others>>

\* findLibsInPath: fq.queue <- fp for the next file; after the last one
\* findLibsInRoots closes fq.queue.
FindLibsInPath ==
  /\ main_pc = "findLibsInPath"
  /\ IF pending # <<>>
       THEN IF fq_queue.closed
              THEN Exit("panic") /\ UNCHANGED fq_queue
            ELSE /\ Len(fq_queue.buf) < FindQueueCap
                 /\ fq_queue' = Send(fq_queue, Head(pending))
                 /\ pending' = Tail(pending)
                 /\ UNCHANGED <<main_pc, find_workers, dump_workers, upload_workers>>
     ELSE IF fq_queue.closed
       THEN Exit("panic") /\ UNCHANGED fq_queue
     ELSE /\ fq_queue' = Close(fq_queue)
          /\ main_pc' = "fq.Wait"
          /\ UNCHANGED <<pending, find_workers, dump_workers, upload_workers>>
  /\ UNCHANGED <<flags, dq_queue, uq_queue, symfiles, dump_log,
                 symupload_runs, pl_others>>

\* findLibsInRoots that closes dq.queue without fq.Wait().
FindQueueWaitNoWait ==
  /\ main_pc = "fq.Wait"
  /\ IF dq_queue.closed
       THEN Exit("panic") /\ UNCHANGED dq_queue
     ELSE /\ dq_queue' = Close(dq_queue)
          /\ main_pc' = "dq.Wait"
          /\ UNCHANGED <<pending, find_workers, dump_workers, upload_workers>>
  /\ UNCHANGED <<flags, fq_queue, uq_queue, symfiles, dump_log,
                 symupload_runs, pl_others>>

\* findLibsInRoots: fq.Wait(); dq.done()
FindQueueWait ==
  /\ main_pc = "fq.Wait"
  /\ FindPoolDone
  /\ IF dq_queue.closed
       THEN Exit("panic") /\ UNCHANGED dq_queue
     ELSE /\ dq_queue' = Close(dq_queue)
          /\ main_pc' = "dq.Wait"
          /\ UNCHANGED <<pending, find_workers, dump_workers, upload_workers>>
  /\ UNCHANGED <<flags, fq_queue, uq_queue, symfiles, dump_log,
                 symupload_runs, pl_others>>

\* main returns; the deferred os.RemoveAll removes the temporary dump
\* directory of the pipeline.
MainReturned ==
  /\ main_pc' = "returned"
  /\ symfiles' = IF flags.mode = "pipeline" THEN {} ELSE symfiles

\* DumpQueue.Wait: dq.Pool.Wait(); if dq.uq != nil { dq.uq.Done() }.
\* With uq = nil main returns after it.
DumpQueueWait ==
  /\ main_pc = "dq.Wait"
  /\ DumpPoolDone
  /\ IF ~ uq_queue.made
       THEN MainReturned
            /\ UNCHANGED <<uq_queue, pending, find_workers, dump_workers,
                           upload_workers>>
     ELSE IF uq_queue.closed
       THEN Exit("panic") /\ UNCHANGED <<uq_queue, symfiles>>
     ELSE /\ uq_queue' = Close(uq_queue)
          /\ main_pc' = "uq.Wait"
          /\ UNCHANGED <<symfiles, pending, find_workers, dump_workers,
                         upload_workers>>
  /\ UNCHANGED <<flags, fq_queue, dq_queue, dump_log, symupload_runs, pl_others>>

\* uq.Wait(), after which main returns.
UploadQueueWait ==
  /\ main_pc = "uq.Wait"
  /\ UploadPoolDone
  /\ MainReturned
  /\ UNCHANGED <<flags, pending, fq_queue, dq_queue, uq_queue, find_workers,
                 dump_workers, upload_workers, dump_log, symupload_runs,
                 pl_others>>

\* ---- findQueue.worker ----

\* dumpMachOFile per architecture of the file: the architectures that
\* DumpSymbols is called for.
ArchesToDump(fp) ==
  SelectSeq(ArchesOf(fp),
            LAMBDA arch :
              (findQueue.dumpArchitecture # <<>>
                 /\ findQueue.dumpArchitecture = arch)
                \/ findQueue.dumpArchitecture = <<>>)

\* for fp := range fq.queue: the next file, up to its first DumpSymbols.
FindWorker(w) ==
  /\ Running
  /\ find_workers[w].pc = "range"
  /\ fq_queue.buf # <<>>
  /\ fq_queue' = Receive(fq_queue)
  /\ LET fp == Head(fq_queue.buf)
     IN find_workers' =
          [find_workers EXCEPT ![w] =
             IF ArchesToDump(fp) = <<>> THEN FindWorkerAt("range", <<>>, <<>>)
             ELSE FindWorkerAt("DumpSymbols", fp, ArchesToDump(fp))]
  /\ UNCHANGED <<main_pc, flags, pending, dq_queue, uq_queue, dump_workers,
                 upload_workers, symfiles, dump_log, symupload_runs, pl_others>>

\* The range loop ends when fq.queue is closed and drained.
FindWorkerReturn(w) ==
  /\ Running
  /\ find_workers[w].pc = "range"
  /\ fq_queue.buf = <<>> /\ fq_queue.closed
  /\ find_workers' = [find_workers EXCEPT ![w].pc = "returned"]
  /\ UNCHANGED <<main_pc, flags, pending, fq_queue, dq_queue, uq_queue,
                 dump_workers, upload_workers, symfiles, dump_log,
                 symupload_runs, pl_others>>

\* DumpQueue.DumpSymbols: dq.queue is unbuffered, so the send of find worker
\* w completes with the receive of a dump worker d at its range statement.
DumpSymbols(w, d) ==
  /\ Running
  /\ find_workers[w].pc = "DumpSymbols"
  /\ IF dq_queue.closed
       THEN Exit("panic") /\ UNCHANGED dump_log
     ELSE /\ dump_workers[d].pc = "range"
          /\ LET req == [path |-> find_workers[w].fp,
                         arch |-> Head(find_workers[w].arches)]
                 rest == Tail(find_workers[w].arches)
             IN /\ dump_workers' =
                     [dump_workers EXCEPT ![d] = DumpWorkerAt("dump", req, <<>>)]
                /\ find_workers' =
                     [find_workers EXCEPT ![w] =
                        IF rest = <<>> THEN FindWorkerAt("range", <<>>, <<>>)
                        ELSE FindWorkerAt("DumpSymbols", find_workers[w].fp, rest)]
                /\ dump_log' = dump_log @@
                     (req :> [dump_syms |-> "none", Upload |-> <<>>,
                              Remove |-> <<>>, done |-> FALSE])
          /\ UNCHANGED <<main_pc, pending, upload_workers>>
  /\ UNCHANGED <<flags, fq_queue, dq_queue, uq_queue, symfiles,
                 symupload_runs, pl_others>>

\* ---- DumpQueue.worker ----

dumpPath == IF flags.mode = "dump-to" THEN DumpToPath ELSE TempDumpPath

\* A worker that uploads the symbol file whether or not dump_syms failed.
DumpWorkerDumpThenUpload(d, err) ==
  /\ Running
  /\ dump_workers[d].pc = "dump"
  /\ LET req == dump_workers[d].req
         symfile == Symfile(dumpPath, req)
     IN /\ symfiles' = IF err THEN symfiles \ {symfile}
                       ELSE symfiles \cup {symfile}
        /\ dump_log' = [dump_log EXCEPT
                          ![req].dump_syms = IF err THEN "failed" ELSE "ok",
                          ![req].Remove = IF err THEN Append(@, symfile) ELSE @,
                          ![req].done = ~ uq_queue.made]
        /\ dump_workers' =
             [dump_workers EXCEPT ![d] =
                IF uq_queue.made THEN DumpWorkerAt("Upload", req, symfile)
                ELSE DumpWorkerAt("range", NoRequest, <<>>)]
  /\ UNCHANGED <<main_pc, flags, pending, fq_queue, dq_queue, uq_queue,
                 find_workers, upload_workers, symupload_runs, pl_others>>

\* The loop body up to the if: os.Create(symfile), dump_syms, and os.Remove
\* when dump_syms failed.  With err == nil and uq != nil the worker goes on
\* to uq.Upload(symfile).
DumpWorkerDump(d, err) ==
  /\ Running
  /\ dump_workers[d].pc = "dump"
  /\ LET req == dump_workers[d].req
         symfile == Symfile(dumpPath, req)
     IN IF err
          THEN /\ symfiles' = symfiles \ {symfile}
               /\ dump_log' = [dump_log EXCEPT
                                 ![req].dump_syms = "failed",
                                 ![req].Remove = Append(@, symfile),
                                 ![req].done = TRUE]
               /\ dump_workers' =
                    [dump_workers EXCEPT ![d] = DumpWorkerAt("range", NoRequest, <<>>)]
        ELSE /\ symfiles' = symfiles \cup {symfile}
             /\ dump_log' = [dump_log EXCEPT
                               ![req].dump_syms = "ok",
                               ![req].done = ~ uq_queue.made]
             /\ dump_workers' =
                  [dump_workers EXCEPT ![d] =
                     IF uq_queue.made THEN DumpWorkerAt("Upload", req, symfile)
                     ELSE DumpWorkerAt("range", NoRequest, <<>>)]
  /\ UNCHANGED <<main_pc, flags, pending, fq_queue, dq_queue, uq_queue,
                 find_workers, upload_workers, symupload_runs, pl_others>>

\* os.Create(symfile) fails: log.Fatalf.
DumpWorkerFatalf(d) ==
  /\ Running
  /\ dump_workers[d].pc = "dump"
  /\ Exit("fatal")
  /\ UNCHANGED <<flags, fq_queue, dq_queue, uq_queue, symfiles, dump_log,
                 symupload_runs, pl_others>>

\* UploadQueue.Upload(symfile) by a dump worker: uq.queue <- filepath
DumpWorkerUpload(d) ==
  /\ Running
  /\ dump_workers[d].pc = "Upload"
  /\ IF uq_queue.closed
       THEN Exit("panic") /\ UNCHANGED <<uq_queue, dump_log>>
     ELSE /\ Len(uq_queue.buf) < UploadQueueCap
          /\ uq_queue' = Send(uq_queue, dump_workers[d].symfile)
          /\ dump_log' = [dump_log EXCEPT
                            ![dump_workers[d].req].Upload =
                               Append(@, dump_workers[d].symfile),
                            ![dump_workers[d].req].done = TRUE]
          /\ dump_workers' =
               [dump_workers EXCEPT ![d] = DumpWorkerAt("range", NoRequest, <<>>)]
          /\ UNCHANGED <<main_pc, pending, find_workers, upload_workers>>
  /\ UNCHANGED <<flags, fq_queue, dq_queue, symfiles, symupload_runs, pl_others>>

\* The range loop ends when dq.queue is closed.
DumpWorkerReturn(d) ==
  /\ Running
  /\ dump_workers[d].pc = "range"
  /\ dq_queue.closed
  /\ dump_workers' = [dump_workers EXCEPT ![d].pc = "returned"]
  /\ UNCHANGED <<main_pc, flags, pending, fq_queue, dq_queue, uq_queue,
                 find_workers, upload_workers, symfiles, dump_log,
                 symupload_runs, pl_others>>

\* ---- UploadQueue.worker ----

\* runSymUpload: the arguments of symupload
runSymUpload(symfile, server) ==
  IF Len(UploadQueue.apiKey) > 0
    THEN <<"-p", "sym-upload-v2", "-k", UploadQueue.apiKey, symfile, server>>
  ELSE <<symfile, server>>

\* for symfile := range uq.queue: symupload is run for every server of
\* uq.servers, up to three times each, whatever the outcomes.
UploadWorker(u) ==
  /\ Running
  /\ upload_workers[u] = "range"
  /\ uq_queue.buf # <<>>
  /\ uq_queue' = Receive(uq_queue)
  /\ symupload_runs' = symupload_runs \cup
       {runSymUpload(Head(uq_queue.buf), UploadQueue.servers[i]) :
          i \in 1..Len(UploadQueue.servers)}
  /\ UNCHANGED <<main_pc, flags, pending, fq_queue, dq_queue, find_workers,
                 dump_workers, upload_workers, symfiles, dump_log, pl_others>>

\* The range loop ends when uq.queue is closed and drained.
UploadWorkerReturn(u) ==
  /\ Running
  /\ upload_workers[u] = "range"
  /\ uq_queue.buf = <<>> /\ uq_queue.closed
  /\ upload_workers' = [upload_workers EXCEPT ![u] = "returned"]
  /\ UNCHANGED <<main_pc, flags, pending, fq_queue, dq_queue, uq_queue,
                 find_workers, dump_workers, symfiles, dump_log,
                 symupload_runs, pl_others>>

PLNext ==
  \/ \E apiKey \in ApiKeys : MainUploadFrom(apiKey)
  \/ UploadFromDirectory
  \/ \E dumpTo \in BOOLEAN, arch \in Architectures, apiKey \in ApiKeys :
       MainDump(dumpTo, arch, apiKey)
  \/ MainFatalf
  \/ FindLibsInPath
  \/ FindQueueWait
  \/ DumpQueueWait
  \/ UploadQueueWait
  \/ \E w \in FindWorkers : FindWorker(w)
  \/ \E w \in FindWorkers : FindWorkerReturn(w)
  \/ \E w \in FindWorkers, d \in DumpWorkers : DumpSymbols(w, d)
  \/ \E d \in DumpWorkers, err \in BOOLEAN : DumpWorkerDump(d, err)
  \/ \E d \in DumpWorkers : DumpWorkerFatalf(d)
  \/ \E d \in DumpWorkers : DumpWorkerUpload(d)
  \/ \E d \in DumpWorkers : DumpWorkerReturn(d)
  \/ \E u \in UploadWorkers : UploadWorker(u)
  \/ \E u \in UploadWorkers : UploadWorkerReturn(u)

(***************************************************************************)
(*                     PEFile::TryGetDebugInfo                             *)
(* Two revisions are in the repository: the one over a memory-mapped file  *)
(* (part_008) and the one over a std::ifstream (pe_file.h).                *)
(***************************************************************************)

MaxSections == 2
MaxDebugEntries == 2

\* pe_structs.h
IMAGE_DOS_SIGNATURE == 23117            \* 0x5A4D, "MZ"
IMAGE_NT_SIGNATURE == 17744             \* 0x00004550, "PE\0\0"
IMAGE_NT_OPTIONAL_HDR32_MAGIC == 267    \* 0x10b
IMAGE_NT_OPTIONAL_HDR64_MAGIC == 523    \* 0x20b
IMAGE_DEBUG_TYPE_CODEVIEW == 2
sizeof_IMAGE_DOS_HEADER == 64
sizeof_IMAGE_NT_HEADERS == 28
sizeof_IMAGE_NT_HEADERS32 == 248
sizeof_IMAGE_NT_HEADERS64 == 264
sizeof_IMAGE_SECTION_HEADER == 40
sizeof_IMAGE_DEBUG_DIRECTORY == 28
sizeof_RSDS_DEBUG_FORMAT == 28

\* Offsets, addresses and sizes are DWORDs; those of the files below stay
\* under 2^16, so that no sum of them wraps.

\* ---- the files handed to TryGetDebugInfo ----

\* Values that are none of the signatures, magics and types above.
OtherMagic == 268
IMAGE_DEBUG_TYPE_MISC == 4

\* The layout of the files: the NT headers follow the DOS header, the section
\* headers follow the NT headers, every section has SectionSize bytes of raw
\* data, and the raw data start at RawDataAt, beyond anything that is read as
\* a section header.
e_lfanew == sizeof_IMAGE_DOS_HEADER
SectionSize == 512
RawDataAt == 1024
FullSize == RawDataAt + SectionSize * MaxSections

SectionHeadersAt(Magic) ==
  e_lfanew + (IF Magic = IMAGE_NT_OPTIONAL_HDR64_MAGIC
                THEN sizeof_IMAGE_NT_HEADERS64 ELSE sizeof_IMAGE_NT_HEADERS32)

\* The i-th section header of a file: virtual addresses from 4096 on.
SectionHeader(Magic, i) ==
  [at |-> SectionHeadersAt(Magic) + sizeof_IMAGE_SECTION_HEADER * (i - 1),
   VirtualAddress |-> 4096 * i,
   SizeOfRawData |-> SectionSize,
   PointerToRawData |-> RawDataAt + SectionSize * (i - 1)]

\* The RSDS record the k-th debug directory entry points to: in the raw data
\* of the last section, the first one ending RsdsEnd bytes into the file.
RsdsAt(k) == FullSize - SectionSize + 128 + 32 * k
RsdsEnd == RsdsAt(1) + sizeof_RSDS_DEBUG_FORMAT

\* A file: its size, the fields of its headers that TryGetDebugInfo reads,
\* and the section headers, debug directory entries and RSDS records in it,
\* each with the file offset it is at.  The debug directory of |types| is at
\* the start of section |dir_section| (of no section, past the last one).
PEFileOf(size, e_magic, Signature, Magic, NumberOfSections, dir_section, types, SizeOfData) ==
  LET debug == [VirtualAddress |-> 4096 * dir_section,
                Size |-> sizeof_IMAGE_DEBUG_DIRECTORY * Len(types)]
      none == [VirtualAddress |-> 0, Size |-> 0]
      raw == RawDataAt + SectionSize * (dir_section - 1)
  IN [size |-> size,
      e_magic |-> e_magic,
      e_lfanew |-> e_lfanew,
      Signature |-> Signature,
      Magic |-> Magic,
      NumberOfSections |-> NumberOfSections,
      DataDirectory32 |-> IF Magic = IMAGE_NT_OPTIONAL_HDR64_MAGIC THEN none ELSE debug,
      DataDirectory64 |-> IF Magic = IMAGE_NT_OPTIONAL_HDR64_MAGIC THEN debug ELSE none,
      sections |-> {SectionHeader(Magic, i) : i \in 1..NumberOfSections},
      debug_directories |->
        IF dir_section > NumberOfSections THEN {}
        ELSE {[at |-> raw + sizeof_IMAGE_DEBUG_DIRECTORY * (k - 1),
               Type |-> types[k],
               SizeOfData |-> SizeOfData,
               PointerToRawData |-> RsdsAt(k)] : k \in 1..Len(types)},
      rsds |-> {[at |-> RsdsAt(k), guid |-> 100 + k, age |-> k] :
                  k \in 1..Len(types)}]

DebugTypeLists(n) ==
  UNION {[1..m -> {IMAGE_DEBUG_TYPE_CODEVIEW, IMAGE_DEBUG_TYPE_MISC}] : m \in 0..n}

FileSizes ==
  {32, 80, SectionHeadersAt(IMAGE_NT_OPTIONAL_HDR32_MAGIC) + 8,
   RsdsEnd, RsdsEnd + 1, FullSize}

PEFiles(n) ==
  {PEFileOf(size, e_magic, Signature, Magic, NumberOfSections, dir_section, types, SizeOfData) :
     size \in FileSizes,
     e_magic \in {IMAGE_DOS_SIGNATURE, 0},
     Signature \in {IMAGE_NT_SIGNATURE, 0},
     Magic \in {IMAGE_NT_OPTIONAL_HDR32_MAGIC, IMAGE_NT_OPTIONAL_HDR64_MAGIC, OtherMagic},
     NumberOfSections \in 0..n,
     dir_section \in 1..(n + 1),
     types \in DebugTypeLists(MaxDebugEntries),
     SizeOfData \in {sizeof_RSDS_DEBUG_FORMAT - 1, sizeof_RSDS_DEBUG_FORMAT,
                     sizeof_RSDS_DEBUG_FORMAT + 4}}

NoFile == PEFileOf(0, 0, 0, 0, 0, 1, <<>>, 0)

\* The struct found at |position| among |structs|; where the file holds none
\* of them its bytes are zero.
StructAt(structs, position, zero) ==
  IF \E s \in structs : s.at = position
    THEN CHOOSE s \in structs : s.at = position
  ELSE zero

ZeroSection == [at |-> 0, VirtualAddress |-> 0, SizeOfRawData |-> 0, PointerToRawData |-> 0]
ZeroDebugDirectory == [at |-> 0, Type |-> 0, SizeOfData |-> 0, PointerToRawData |-> 0]
ZeroRsds == [at |-> 0, guid |-> 0, age |-> 0]

\* The fields of the DOS header at offset 0 and of the NT headers at
\* |position|.
DosHeader(file) == [e_magic |-> file.e_magic, e_lfanew |-> file.e_lfanew]
NtHeaders(file, position) ==
  IF position = file.e_lfanew
    THEN [Signature |-> file.Signature, Magic |-> file.Magic,
          NumberOfSections |-> file.NumberOfSections,
          DataDirectory32 |-> file.DataDirectory32,
          DataDirectory64 |-> file.DataDirectory64]
  ELSE [Signature |-> 0, Magic |-> 0, NumberOfSections |-> 0,
        DataDirectory32 |-> [VirtualAddress |-> 0, Size |-> 0],
        DataDirectory64 |-> [VirtualAddress |-> 0, Size |-> 0]]

\* debug_info as the caller passes it, and as the memcpy calls leave it.
Unwritten == [written |-> FALSE, guid |-> 0, age |-> 0]
Populated(rsds) == [written |-> TRUE, guid |-> rsds.guid, age |-> rsds.age]

\* ---- part_008: over a memory-mapped file ----

\* TryReadStruct<TStruct>(base, position, file_size) # nullptr
TryReadStruct(sizeof_TStruct, position, file_size) ==
  ~ (position + sizeof_TStruct >= file_size)

Part008Result(result, debug_info) == [result |-> result, debug_info |-> debug_info]

\* for (WORD i = 0; i < sections_number; ++i): the section holding
\* debug_offset, with section_offset as the loop leaves it.
RECURSIVE Part008Sections(_, _, _, _, _)
Part008Sections(file, i, sections_number, section_offset, debug_offset) ==
  IF i >= sections_number
    THEN [outcome |-> "none", section |-> ZeroSection, section_offset |-> section_offset]
  ELSE IF ~ TryReadStruct(sizeof_IMAGE_SECTION_HEADER, section_offset, file.size)
    THEN [outcome |-> "nullptr", section |-> ZeroSection, section_offset |-> section_offset]
  ELSE LET section == StructAt(file.sections, section_offset, ZeroSection)
           next == (section_offset + sizeof_IMAGE_SECTION_HEADER)
       IN IF section.VirtualAddress <= debug_offset
               /\ debug_offset < (section.VirtualAddress + section.SizeOfRawData)
            THEN [outcome |-> "found", section |-> section, section_offset |-> next]
          ELSE Part008Sections(file, i + 1, sections_number, next, debug_offset)

\* while (debug_offset < debug_end_pos)
RECURSIVE Part008DebugDirectories(_, _, _, _, _)
Part008DebugDirectories(file, debug_offset, debug_end_pos, sections_number, section_offset) ==
  IF ~ (debug_offset < debug_end_pos)
    THEN Part008Result("peWithoutBuildId", Unwritten)
  ELSE
    LET scan == Part008Sections(file, 0, sections_number, section_offset, debug_offset)
        section == scan.section
        offset == (section.PointerToRawData + debug_offset - section.VirtualAddress)
        debug_directory == StructAt(file.debug_directories, offset, ZeroDebugDirectory)
        rsds == StructAt(file.rsds, debug_directory.PointerToRawData, ZeroRsds)
        next == Part008DebugDirectories(file,
                  (debug_offset + sizeof_IMAGE_DEBUG_DIRECTORY),
                  debug_end_pos, sections_number, scan.section_offset)
    IN IF scan.outcome = "nullptr"
         THEN Part008Result("peWithoutBuildId", Unwritten)
       ELSE IF scan.outcome = "none"
         THEN next
       ELSE IF ~ TryReadStruct(sizeof_IMAGE_DEBUG_DIRECTORY, offset, file.size)
         THEN Part008Result("peWithoutBuildId", Unwritten)
       ELSE IF debug_directory.Type # IMAGE_DEBUG_TYPE_CODEVIEW
         THEN next
       ELSE IF debug_directory.SizeOfData < sizeof_RSDS_DEBUG_FORMAT
         THEN Part008Result("peWithoutBuildId", Unwritten)
       ELSE IF ~ TryReadStruct(sizeof_RSDS_DEBUG_FORMAT, debug_directory.PointerToRawData, file.size)
         THEN Part008Result("peWithoutBuildId", Unwritten)
       ELSE Part008Result("peWithBuildId", Populated(rsds))

\* PEFile::TryGetDebugInfo(filename, debug_info) on the mapped |file|.
Part008TryGetDebugInfo(file) ==
  LET header == DosHeader(file)
      nt_header_offset == header.e_lfanew
      nt_header == NtHeaders(file, nt_header_offset)
      x64 == nt_header.Magic = IMAGE_NT_OPTIONAL_HDR64_MAGIC
      sizeof_headers == IF x64 THEN sizeof_IMAGE_NT_HEADERS64 ELSE sizeof_IMAGE_NT_HEADERS32
      directory == IF x64 THEN nt_header.DataDirectory64 ELSE nt_header.DataDirectory32
      debug_offset == directory.VirtualAddress
      debug_size == directory.Size
      section_offset == (nt_header_offset + sizeof_headers)
  IN IF file.size = 0
       THEN Part008Result("notPeCoff", Unwritten)
     ELSE IF ~ TryReadStruct(sizeof_IMAGE_DOS_HEADER, 0, file.size)
               \/ header.e_magic # IMAGE_DOS_SIGNATURE
       THEN Part008Result("notPeCoff", Unwritten)
     ELSE IF \/ ~ TryReadStruct(sizeof_IMAGE_NT_HEADERS, nt_header_offset, file.size)
             \/ nt_header.Signature # IMAGE_NT_SIGNATURE
             \/ (nt_header.Magic # IMAGE_NT_OPTIONAL_HDR64_MAGIC
                   /\ nt_header.Magic # IMAGE_NT_OPTIONAL_HDR32_MAGIC)
       THEN Part008Result("notPeCoff", Unwritten)
     ELSE IF ~ TryReadStruct(sizeof_headers, nt_header_offset, file.size)
       THEN Part008Result("peWithoutBuildId", Unwritten)
     ELSE Part008DebugDirectories(file, debug_offset,
            (debug_offset + debug_size),
            nt_header.NumberOfSections, section_offset)

\* ---- pe_file.h: over a std::ifstream ----

\* TryReadStructFromFile<TStruct>(file, size, result) with the stream at
\* |position|: file.read stores |size| bytes unless the stream has failed or
\* the file ends before them.
TryReadStructFromFile(file, fail, position, size, sizeof_TStruct) ==
  /\ ~ (size < sizeof_TStruct)
  /\ ~ fail
  /\ position + size <= file.size

\* file.read(result, size) with size > sizeof(TStruct) stores past the end of
\* *result when the file has that many bytes at |position|.
ReadOverflows(file, position, size, sizeof_TStruct) ==
  /\ ~ (size < sizeof_TStruct)
  /\ Min(size, file.size - position) > sizeof_TStruct

\* ReadSectionHeaders(file, sections_number) with the stream at |position|:
\* the vector (value-initialised where the reads stopped) and whether the
\* stream is left failed.
RECURSIVE ReadSectionHeaders(_, _, _, _)
ReadSectionHeaders(file, position, i, sections_number) ==
  IF i >= sections_number
    THEN [sections |-> <<>>, fail |-> FALSE]
  ELSE IF ~ TryReadStructFromFile(file, FALSE, position, sizeof_IMAGE_SECTION_HEADER, sizeof_IMAGE_SECTION_HEADER)
    THEN [sections |-> [j \in 1..(sections_number - i) |-> ZeroSection], fail |-> TRUE]
  ELSE LET rest == ReadSectionHeaders(file, position + sizeof_IMAGE_SECTION_HEADER, i + 1, sections_number)
       IN [sections |-> <<StructAt(file.sections, position, ZeroSection)>> \o rest.sections,
           fail |-> rest.fail]

PEFileHResult(result, pe, debug_info) == [result |-> result, pe |-> pe, debug_info |-> debug_info]

\* for (IMAGE_SECTION_HEADER& section : sections): the index of the first
\* section holding debug_offset, 0 if there is none.
PEFileHSection(sections, debug_offset) ==
  LET holding == {i \in 1..Len(sections) :
                    /\ sections[i].VirtualAddress <= debug_offset
                    /\ debug_offset < (sections[i].VirtualAddress + sections[i].SizeOfRawData)}
  IN IF holding = {} THEN 0 ELSE CHOOSE i \in holding : \A j \in holding : i <= j

\* while (debug_offset < debug_end_pos).  |ub| is what a store past the end
\* of the local rsds does: "abort" ends the process, "unnoticed" lets the
\* function go on.
RECURSIVE PEFileHDebugDirectories(_, _, _, _, _, _, _)
PEFileHDebugDirectories(file, fail, pe, debug_offset, debug_end_pos, sections, ub) ==
  IF ~ (debug_offset < debug_end_pos)
    THEN PEFileHResult("false", pe, Unwritten)
  ELSE
    LET i == PEFileHSection(sections, debug_offset)
        section == IF i = 0 THEN ZeroSection ELSE sections[i]
        offset == (section.PointerToRawData + debug_offset - section.VirtualAddress)
        image_debug_directory == StructAt(file.debug_directories, offset, ZeroDebugDirectory)
        debug_directory_size == image_debug_directory.SizeOfData
        position == image_debug_directory.PointerToRawData
        rsds == StructAt(file.rsds, position, ZeroRsds)
        next == PEFileHDebugDirectories(file, fail, pe,
                  (debug_offset + sizeof_IMAGE_DEBUG_DIRECTORY),
                  debug_end_pos, sections, ub)
    IN IF i = 0
         THEN next
       ELSE IF ~ TryReadStructFromFile(file, fail, offset, sizeof_IMAGE_DEBUG_DIRECTORY, sizeof_IMAGE_DEBUG_DIRECTORY)
         THEN PEFileHResult("false", pe, Unwritten)
       ELSE IF image_debug_directory.Type # IMAGE_DEBUG_TYPE_CODEVIEW
         THEN next
       ELSE IF debug_directory_size < sizeof_RSDS_DEBUG_FORMAT
         THEN PEFileHResult("false", pe, Unwritten)
       ELSE IF ReadOverflows(file, position, debug_directory_size, sizeof_RSDS_DEBUG_FORMAT) /\ ub = "abort"
         THEN PEFileHResult("aborted", pe, Unwritten)
       ELSE IF ~ TryReadStructFromFile(file, fail, position, debug_directory_size, sizeof_RSDS_DEBUG_FORMAT)
         THEN PEFileHResult("false", pe, Unwritten)
       ELSE PEFileHResult("true", pe, Populated(rsds))

\* PEFile::TryGetDebugInfo(file, pe, debug_info) on a stream over |file|.
\* The test `if (!pe)` is of the pointer, which is never null.
PEFileHTryGetDebugInfo(file, ub) ==
  LET dos_header == DosHeader(file)
      ntHeaderOffset == dos_header.e_lfanew
      nt_header == NtHeaders(file, ntHeaderOffset)
      x64 == nt_header.Magic = IMAGE_NT_OPTIONAL_HDR64_MAGIC
      pe == \/ nt_header.Magic = IMAGE_NT_OPTIONAL_HDR64_MAGIC
            \/ nt_header.Magic = IMAGE_NT_OPTIONAL_HDR32_MAGIC
      sizeof_headers == IF x64 THEN sizeof_IMAGE_NT_HEADERS64 ELSE sizeof_IMAGE_NT_HEADERS32
      directory == IF x64 THEN nt_header.DataDirectory64 ELSE nt_header.DataDirectory32
      debug_offset == directory.VirtualAddress
      debug_size == directory.Size
      read == ReadSectionHeaders(file, ntHeaderOffset + sizeof_headers, 0, nt_header.NumberOfSections)
  IN IF ~ TryReadStructFromFile(file, FALSE, 0, sizeof_IMAGE_DOS_HEADER, sizeof_IMAGE_DOS_HEADER)
       THEN PEFileHResult("false", FALSE, Unwritten)
     ELSE IF dos_header.e_magic # IMAGE_DOS_SIGNATURE
       THEN PEFileHResult("false", FALSE, Unwritten)
     ELSE IF ~ TryReadStructFromFile(file, FALSE, ntHeaderOffset, sizeof_IMAGE_NT_HEADERS, sizeof_IMAGE_NT_HEADERS)
       THEN PEFileHResult("false", FALSE, Unwritten)
     ELSE IF nt_header.Signature # IMAGE_NT_SIGNATURE
       THEN PEFileHResult("false", FALSE, Unwritten)
     ELSE IF ~ TryReadStructFromFile(file, FALSE, ntHeaderOffset, sizeof_headers, sizeof_headers)
       THEN PEFileHResult("false", pe, Unwritten)
     ELSE PEFileHDebugDirectories(file, read.fail, pe, debug_offset,
            (debug_offset + debug_size), read.sections, ub)

\* ---- the calls ----

NoPECall == [op |-> "none", result |-> "none", pe |-> FALSE, debug_info |-> Unwritten]

PEInit ==
  /\ pe_file = NoFile
  /\ pe_call = NoPECall

\* The caller turns to a file ...
OpenFile(file) ==
  /\ pe_file = NoFile
  /\ pe_file' = file
  /\ pe_call' = NoPECall
  /\ UNCHANGED pe_others

\* ... and is through with it.
CloseFile ==
  /\ pe_file # NoFile
  /\ pe_file' = NoFile
  /\ pe_call' = NoPECall
  /\ UNCHANGED pe_others

\* PEFile::TryGetDebugInfo(filename, &debug_info) of part_008.
TryGetDebugInfoMapped ==
  /\ pe_file # NoFile
  /\ pe_call' = [op |-> "part_008", pe |-> FALSE] @@ Part008TryGetDebugInfo(pe_file)
  /\ UNCHANGED <<pe_file, pe_others>>

\* PEFile::TryGetDebugInfo(file, &pe, &debug_info) of pe_file.h, on a stream
\* at position 0.
TryGetDebugInfoStream(ub) ==
  /\ pe_file # NoFile
  /\ pe_call' = [op |-> "pe_file.h"] @@ PEFileHTryGetDebugInfo(pe_file, ub)
  /\ UNCHANGED <<pe_file, pe_others>>

PENext ==
  \/ \E file \in PEFiles(MaxSections) : OpenFile(file)
  \/ CloseFile
  \/ TryGetDebugInfoMapped
  \/ \E ub \in {"unnoticed", "abort"} : TryGetDebugInfoStream(ub)

(***************************************************************************)
(*                  path_helper: BaseName and DirName                      *)
(***************************************************************************)

MaxPathLength == 4

\* The paths of the callers: strings over '/', a letter and a dot.
PathChars == {"/", "a", "."}
Paths(n) == UNION {[1..m -> PathChars] : m \in 0..n}

\* std::string, with positions from 0 and npos for 'not found'.
npos == -1

\* path.find_last_not_of('/')
find_last_not_of(path, char) ==
  LET at == {i \in 0..(Len(path) - 1) : path[i + 1] # char}
  IN IF at = {} THEN npos ELSE CHOOSE i \in at : \A j \in at : j <= i

\* path.rfind('/', pos): the last occurrence that starts at or before pos
rfind(path, char, pos) ==
  LET at == {i \in 0..(Len(path) - 1) : i <= pos /\ path[i + 1] = char}
  IN IF at = {} THEN npos ELSE CHOOSE i \in at : \A j \in at : j <= i

\* path.substr(pos, n): at most n characters from pos on
substr(path, pos, n) ==
  SubSeq(path, pos + 1, Min(pos + n, Len(path)))

\* SplitPath(path): the pair <<first, second>>
SplitPath(path) ==
  LET end_pos == find_last_not_of(path, "/")
      slash_pos == rfind(path, "/", end_pos)
  IN IF path = <<>> THEN [first |-> <<".">>, second |-> <<".">>]
     ELSE IF path = <<"/">> THEN [first |-> <<"/">>, second |-> <<"/">>]
     ELSE IF Len(path) = 1 THEN [first |-> <<".">>, second |-> path]
     ELSE IF end_pos = npos THEN [first |-> <<"/">>, second |-> <<"/">>]
     ELSE IF slash_pos = npos THEN [first |-> <<".">>, second |-> path]
     ELSE [first |-> substr(path, 0, IF slash_pos # 0 THEN slash_pos ELSE 1),
           second |-> substr(path, slash_pos + 1, end_pos - slash_pos)]

BaseName(path) == SplitPath(path).second

DirName(path) == SplitPath(path).first

NoPathCall == [op |-> "none", path |-> <<>>, result |-> <<>>]

PathInit == path_call = NoPathCall

\* A call of BaseName(path)
CallBaseName(path) ==
  /\ path_call' = [op |-> "BaseName", path |-> path, result |-> BaseName(path)]
  /\ UNCHANGED path_others

\* A call of DirName(path)
CallDirName(path) ==
  /\ path_call' = [op |-> "DirName", path |-> path, result |-> DirName(path)]
  /\ UNCHANGED path_others

PathNext ==
  \/ \E path \in Paths(MaxPathLength) : CallBaseName(path)
  \/ \E path \in Paths(MaxPathLength) : CallDirName(path)

(***************************************************************************)
(*        The minidump structure definitions: the handle-data stream       *)
(***************************************************************************)

MaxDescriptors == 3
MaxDescriptorSize == 48

\* The sizes of the primitive types.
uint8 == 1
uint32 == 4
uint64 == 8

\* struct({...}): the sizes of the fields, in order.
minidump_handle_descriptor ==
  [typeName |-> "MINIDUMP_HANDLE_DESCRIPTOR",
   fields |-> <<uint64, uint32, uint32, uint32, uint32, uint32, uint32>>]

minidump_handle_descriptor_2 ==
  [typeName |-> "MINIDUMP_HANDLE_DESCRIPTOR_2",
   fields |-> <<uint64, uint32, uint32, uint32, uint32, uint32, uint32, uint32, uint32>>]

\* array(uint8(), n), as an element type
ByteArray(n) == [typeName |-> "uint8[]", fields |-> [i \in 1..n |-> uint8]]

RECURSIVE SizeOfFields(_)
SizeOfFields(fields) ==
  IF fields = <<>> THEN 0 ELSE Head(fields) + SizeOfFields(Tail(fields))

\* array(type, length) decoded at offset |at|: each element with its type,
\* its offset in the stream and its size.
Array(type, length, at) ==
  [k \in 1..length |->
     [typeName |-> type.typeName,
      at |-> at + SizeOfFields(type.fields) * (k - 1),
      size |-> SizeOfFields(type.fields)]]

\* The four uint32 fields every alternative starts with.
HeaderFields == <<uint32, uint32, uint32, uint32>>

\* The headers of the streams decoded.
DescriptorSizes(n) == {s \in 0..n : s % 4 = 0}

HandleDataHeaders(n) ==
  [SizeOfHeader : {0, 4 + 4 + 4 + 4, 32},
   SizeOfDescriptor : DescriptorSizes(MaxDescriptorSize),
   NumberOfDescriptors : 0..n]

\* Without the alternative for another SizeOfHeader.
minidump_handle_data_stream_by_descriptor_size(header) ==
  IF header.SizeOfDescriptor = 8 + 4 + 4 + 4 + 4 + 4 + 4
    THEN [alternative |-> "MINIDUMP_HANDLE_DESCRIPTOR",
          Descriptors |-> Array(minidump_handle_descriptor,
                                header.NumberOfDescriptors, SizeOfFields(HeaderFields))]
  ELSE IF header.SizeOfDescriptor = 8 + 4 + 4 + 4 + 4 + 4 + 4 + 4 + 4
    THEN [alternative |-> "MINIDUMP_HANDLE_DESCRIPTOR_2",
          Descriptors |-> Array(minidump_handle_descriptor_2,
                                header.NumberOfDescriptors, SizeOfFields(HeaderFields))]
  ELSE [alternative |-> "",
        Descriptors |-> Array(ByteArray(header.SizeOfDescriptor),
                              header.NumberOfDescriptors, SizeOfFields(HeaderFields))]

\* taggedUnion(fields, alternatives, defaultFields): the first alternative
\* whose condition holds of the fields, the default fields if none does.
minidump_handle_data_stream(header) ==
  IF header.SizeOfHeader # 4 + 4 + 4 + 4
    THEN [alternative |-> "MINIDUMP_HANDLE_DESCRIPTOR_UNKNOWN",
          Descriptors |-> Array(ByteArray(1), 0, SizeOfFields(HeaderFields))]
  ELSE IF header.SizeOfDescriptor = 8 + 4 + 4 + 4 + 4 + 4 + 4
    THEN [alternative |-> "MINIDUMP_HANDLE_DESCRIPTOR",
          Descriptors |-> Array(minidump_handle_descriptor,
                                header.NumberOfDescriptors, SizeOfFields(HeaderFields))]
  ELSE IF header.SizeOfDescriptor = 8 + 4 + 4 + 4 + 4 + 4 + 4 + 4 + 4
    THEN [alternative |-> "MINIDUMP_HANDLE_DESCRIPTOR_2",
          Descriptors |-> Array(minidump_handle_descriptor_2,
                                header.NumberOfDescriptors, SizeOfFields(HeaderFields))]
  ELSE [alternative |-> "",
        Descriptors |-> Array(ByteArray(header.SizeOfDescriptor),
                              header.NumberOfDescriptors, SizeOfFields(HeaderFields))]

NoHandleData ==
  [decoded |-> FALSE,
   header |-> [SizeOfHeader |-> 0, SizeOfDescriptor |-> 0, NumberOfDescriptors |-> 0],
   stream |-> [alternative |-> "", Descriptors |-> <<>>]]

HDInit == handle_data = NoHandleData

\* The directory entry of stream type 12 is decoded: a handle-data stream
\* with |header|.
DecodeHandleData(header) ==
  /\ handle_data' = [decoded |-> TRUE, header |-> header,
                     stream |-> minidump_handle_data_stream(header)]
  /\ UNCHANGED hd_others

HDNext == \E header \in HandleDataHeaders(MaxDescriptors) : DecodeHandleData(header)

(***************************************************************************)
(*        PrintStack: the register contexts of the frames it reads         *)
(***************************************************************************)

MaxStackFrames == 3

FRAME_TRUST_INLINE == "FRAME_TRUST_INLINE"

\* The call stacks the stackwalker hands over: physical frames, each with
\* the stack pointer of its context (valid or not), and in front of a
\* physical frame the frames of the functions inlined at its instruction.
\* An inline frame is a plain StackFrame: it has no context.
StackShapes(n) ==
  UNION {{shape \in [1..k -> [inline : BOOLEAN, sp_valid : BOOLEAN]] :
            /\ k > 0 => ~ shape[k].inline
            /\ \A i \in 1..k : shape[i].inline => ~ shape[i].sp_valid} :
         k \in 0..n}

ContextFrame(index, shape) ==
  [trust |-> IF shape.inline THEN FRAME_TRUST_INLINE
             ELSE IF index = 0 THEN "FRAME_TRUST_CONTEXT" ELSE "FRAME_TRUST_CFI",
   has_context |-> ~ shape.inline,
   context_validity |-> shape.sp_valid,
   sp |-> IF shape.inline THEN 0 ELSE 4096 + 32 * index]

ContextStacks(n) ==
  {[i \in 1..Len(shape) |-> ContextFrame(i - 1, shape[i])] : shape \in StackShapes(n)}

StackCpus == {"x86", "amd64", "ppc"}

\* What a read of the context of a frame without one may find: anything,
\* the stack pointer of the physical frame it was expanded from included.
NoContextReads(n) ==
  [context_validity : BOOLEAN, sp : {0, 8192} \cup {4096 + 32 * i : i \in 1..(n - 1)}]

\* static_cast<const StackFrameX86*>(frame)->context_validity and ->context:
\* for a frame without a context the members lie outside the object, and the
\* read finds |garbage|.
FrameContext(frame, garbage) ==
  IF frame.has_context
    THEN [context_validity |-> frame.context_validity, sp |-> frame.sp]
  ELSE garbage

\* The CPUs PrintStack prints registers for, and the word length
\* PrintStackContents has for a CPU (0: none).
RegisterCpus ==
  {"x86", "ppc", "amd64", "sparc", "arm", "arm64", "mips", "mips64", "riscv", "riscv64"}

WordLength(cpu) ==
  IF cpu \in {"x86", "arm", "riscv"} THEN 4
  ELSE IF cpu \in {"amd64", "arm64", "riscv64"} THEN 8
  ELSE 0

ContextRead(frame_index, what) == [frame |-> frame_index, what |-> what]

\* PrintStack, the registers of one frame: the frames whose context is read.
PrintStackRegisters(frame_index, frame, cpu) ==
  IF frame.trust # FRAME_TRUST_INLINE /\ cpu \in RegisterCpus
    THEN {ContextRead(frame_index, "registers")}
  ELSE {}

\* PrintStackContents(indent, frame, prev_frame, cpu, ...) for the frame at
\* frame_index and the one after it: the frames whose context is read and
\* the range of the stack that is printed.
PrintStackContents(frame_index, frames, cpu, garbage) ==
  LET frame == FrameContext(frames[frame_index + 1], garbage)
      prev_frame == FrameContext(frames[frame_index + 2], garbage)
      both == frame.context_validity /\ prev_frame.context_validity
      stack_begin == IF WordLength(cpu) # 0 /\ both THEN frame.sp ELSE 0
      stack_end == IF WordLength(cpu) # 0 /\ both THEN prev_frame.sp ELSE 0
  IN [reads |-> IF WordLength(cpu) = 0 THEN {}
                ELSE {ContextRead(frame_index, "stack_begin")}
                       \cup (IF frame.context_validity
                               THEN {ContextRead(frame_index + 1, "stack_end")}
                             ELSE {}),
      contents |-> IF WordLength(cpu) = 0 \/ stack_begin = 0 \/ stack_end = 0
                     THEN <<>>
                   ELSE <<[frame |-> frame_index, stack_begin |-> stack_begin,
                           stack_end |-> stack_end]>>]

\* PrintStack(stack, cpu, output_stack_contents, ...), as far as the
\* contexts of the frames go.
RECURSIVE PrintStackFrom(_, _, _, _, _)
PrintStackFrom(frame_index, frames, cpu, output_stack_contents, garbage) ==
  IF ~ (frame_index < Len(frames))
    THEN [reads |-> {}, contents |-> <<>>]
  ELSE
    LET registers == PrintStackRegisters(frame_index, frames[frame_index + 1], cpu)
        stack_contents ==
          IF output_stack_contents /\ frame_index + 1 < Len(frames)
            THEN PrintStackContents(frame_index, frames, cpu, garbage)
          ELSE [reads |-> {}, contents |-> <<>>]
        rest == PrintStackFrom(frame_index + 1, frames, cpu, output_stack_contents, garbage)
    IN [reads |-> registers \cup stack_contents.reads \cup rest.reads,
        contents |-> stack_contents.contents \o rest.contents]

NoStackPrint ==
  [printed |-> FALSE, cpu |-> "", frames |-> <<>>, output_stack_contents |-> FALSE,
   reads |-> {}, contents |-> <<>>]

SCInit == stack_print = NoStackPrint

\* A call of PrintStack on the stack |frames| of a dump of |cpu|.
CallPrintStack(frames, cpu, output_stack_contents, garbage) ==
  /\ stack_print' =
       [printed |-> TRUE, cpu |-> cpu, frames |-> frames,
        output_stack_contents |-> output_stack_contents]
       @@ PrintStackFrom(0, frames, cpu, output_stack_contents, garbage)
  /\ UNCHANGED sc_others

SCNext ==
  \E frames \in ContextStacks(MaxStackFrames), cpu \in StackCpus,
     output_stack_contents \in BOOLEAN,
     garbage \in NoContextReads(MaxStackFrames) :
    CallPrintStack(frames, cpu, output_stack_contents, garbage)

vars == <<dc_vars, ps_vars, lsd_vars, pl_vars, pe_vars, path_vars, hd_vars,
          sc_vars>>

Init ==
  DCInit /\ PSInit /\ LSDInit /\ PLInit /\ PEInit /\ PathInit /\ HDInit /\ SCInit

\* DumpContext alone.
SpecDC == Init /\ [][DCNext]_vars

\* The report printers alone.
SpecPS == Init /\ [][PSNext]_vars

\* A LongStringDictionary and its callers alone.
SpecLSD == Init /\ [][LSDNext]_vars

\* The upload_system_symbols pipeline alone.
SpecPL == Init /\ [][PLNext]_vars

\* PEFile::TryGetDebugInfo and its callers alone.
SpecPE == Init /\ [][PENext]_vars

\* BaseName, DirName and their callers alone.
SpecPath == Init /\ [][PathNext]_vars

\* The handle-data stream decoder alone.
SpecHD == Init /\ [][HDNext]_vars

\* PrintStack's reads of the frame contexts alone.
SpecSC == Init /\ [][SCNext]_vars

(***************************************************************************)
(*                    Properties of DumpContext                            *)
(***************************************************************************)

\* The program counter and the stack pointer of each architecture's context.
ProgramCounterOf(raw) ==
  CASE raw.cpu = "x86" -> raw.field.eip
    [] raw.cpu = "amd64" -> raw.field.rip
    [] raw.cpu = "arm" -> raw.reg[15]
    [] raw.cpu = "arm64" -> raw.reg[32]
    [] raw.cpu \in {"mips", "mips64"} -> raw.field.epc
    [] raw.cpu \in {"ppc", "ppc64"} -> raw.field.srr0
    [] raw.cpu = "sparc" -> raw.field.pc
    [] raw.cpu \in {"riscv", "riscv64"} -> raw.field.pc

StackPointerOf(raw) ==
  CASE raw.cpu = "x86" -> raw.field.esp
    [] raw.cpu = "amd64" -> raw.field.rsp
    [] raw.cpu = "arm" -> raw.reg[13]
    [] raw.cpu = "arm64" -> raw.reg[31]
    [] raw.cpu \in {"mips", "mips64"} -> raw.reg[29]
    [] raw.cpu \in {"ppc", "ppc64"} -> raw.reg[1]
    [] raw.cpu = "sparc" -> raw.reg[14]
    [] raw.cpu \in {"riscv", "riscv64"} -> raw.reg[MD_CONTEXT_RISCV_REG_SP]

AccessorGaveRegister ==
  /\ dc_call.ret
  /\ dc_call.out = IF dc_call.op = "ip" THEN ProgramCounterOf(dc_call.context)
                   ELSE StackPointerOf(dc_call.context)

\* C1: on a valid DumpContext of any of the eleven architectures,
\* GetInstructionPointer and GetStackPointer return true and store that
\* architecture's program counter and stack pointer.
C1_AccessorsCoverEveryArchitecture ==
  (dc_call.op # "none" /\ dc_call.valid) => AccessorGaveRegister

\* The accessors do so for the architectures GetContextCPU's switch names.
DCSwitchedArchitecturesOk ==
  (dc_call.op # "none" /\ dc_call.valid
     /\ dc_call.context.cpu \notin {"riscv", "riscv64"}) => AccessorGaveRegister

\* An accessor was called on a valid RISC-V context.
DCRiscvAccessed ==
  dc_call.op # "none" /\ dc_call.valid /\ dc_call.context.cpu = "riscv64"

(***************************************************************************)
(*                 Properties of the report printers                       *)
(***************************************************************************)

LinesOfKind(kind) ==
  {i \in 1..Len(report.lines) : report.lines[i].kind = kind}

Reported == report.printer # "none"

\* The printer was asked for all threads.
AllThreadsWanted == Reported /\ ~report.requesting_thread_only

NumThreads == Len(process_state.threads)

AllStacksNonEmpty ==
  \A t \in 1..NumThreads : Len(process_state.threads[t]) > 0

HasMainModule ==
  process_state.has_modules /\ GetMainModule(process_state.modules) # 0

CrashPrinted ==
  \E i \in LinesOfKind("crash") :
    /\ report.lines[i].reason = process_state.crash_reason
    /\ report.lines[i].has_address
    /\ report.lines[i].address = process_state.crash_address

EveryStackPrintedOnce ==
  \A t \in 0..(NumThreads - 1) :
    Cardinality({i \in LinesOfKind("stack") : report.lines[i].thread = t}) = 1

\* C2: with crashed = true and the requesting thread unset, every printer
\* completes, prints the crash reason and address and prints every thread's
\* stack exactly once.  (Stated for dumps that have a main module and no
\* empty stack, so that only the unset index is at stake.)
C2_UnsetRequestingThreadPrints ==
  (AllThreadsWanted /\ process_state.crashed
     /\ process_state.requesting_thread = -1
     /\ HasMainModule /\ NumThreads > 0 /\ AllStacksNonEmpty)
  => (report.outcome = "ok" /\ CrashPrinted /\ EveryStackPrintedOnce)

\* The two printers that test the requesting thread before indexing do so.
PSUnsetRequestingThreadOk ==
  (AllThreadsWanted /\ process_state.crashed
     /\ process_state.requesting_thread = -1
     /\ report.printer # "PrintProcessStateAppleCrashReport")
  => (report.outcome = "ok" /\ CrashPrinted /\ EveryStackPrintedOnce)

EmptyModuleList ==
  process_state.has_modules /\ process_state.modules = <<>>

\* C3: with an empty module list every printer completes, prints every frame
\* with its absolute instruction address and an empty module field, and
\* prints no module line.  (Stated for dumps with a known requesting thread
\* and no empty stack, so that only the empty module list is at stake.)
C3_EmptyModuleListPrints ==
  (AllThreadsWanted /\ EmptyModuleList
     /\ process_state.requesting_thread # -1 /\ AllStacksNonEmpty)
  => /\ report.outcome = "ok"
     /\ \A t \in 1..NumThreads : \A f \in 1..Len(process_state.threads[t]) :
          \E i \in LinesOfKind("frame") :
            /\ report.lines[i].thread = t - 1
            /\ report.lines[i].index = f - 1
            /\ report.lines[i].module = <<>>
            /\ report.lines[i].has_address
            /\ report.lines[i].address = process_state.threads[t][f].instruction
     /\ LinesOfKind("module") = {}

SymbolIssuesOf(sequence) ==
  IF sequence \in process_state.modules_without_symbols THEN "No symbols"
  ELSE IF sequence \in process_state.modules_with_corrupt_symbols
       THEN "Corrupt symbols"
       ELSE ""

\* C4: the loaded-modules listing warns 'No symbols' exactly for the members
\* of modules_without_symbols, 'Corrupt symbols' exactly for the members of
\* modules_with_corrupt_symbols that are not in modules_without_symbols, and
\* nothing for the others, also when modules share a debug file and
\* identifier.
C4_WarningIffMember ==
  (report.printer = "PrintProcessState" /\ report.outcome = "ok")
  => \A i \in LinesOfKind("module") :
       report.lines[i].symbol_issues = SymbolIssuesOf(report.lines[i].sequence)

\* The same, for dumps whose modules all differ in debug identifier.
PSWarningIffMemberWhenDistinct ==
  (report.printer = "PrintProcessState" /\ report.outcome = "ok"
     /\ process_state.modules \in DistinctModuleLists)
  => \A i \in LinesOfKind("module") :
       report.lines[i].symbol_issues = SymbolIssuesOf(report.lines[i].sequence)

MainMarked ==
  {report.lines[i].sequence : i \in {j \in LinesOfKind("module") : report.lines[j].main}}

\* C5: PrintModules and PrintModulesMachineReadable mark exactly the module
\* GetMainModule() returns, whatever its base address, and mark none when
\* there is no main module.
C5_MainModuleMarked ==
  (report.printer \in {"PrintProcessState", "PrintProcessStateMachineReadable"}
     /\ report.outcome = "ok" /\ process_state.has_modules)
  => MainMarked = IF GetMainModule(process_state.modules) # 0
                  THEN {GetMainModule(process_state.modules)} ELSE {}

\* The machine-readable listing does.
PSMainModuleMarkedMachineReadable ==
  (report.printer = "PrintProcessStateMachineReadable"
     /\ report.outcome = "ok" /\ process_state.has_modules)
  => MainMarked = IF GetMainModule(process_state.modules) # 0
                  THEN {GetMainModule(process_state.modules)} ELSE {}

(***************************************************************************)
(*                 Properties of LongStringDictionary                      *)
(***************************************************************************)

CeilDiv(a, b) == (a + b - 1) \div b

SegmentKey(key, i) == key \o kSuffixes[i]

\* The entries a key may occupy: the plain one and its segments.
EntriesOf(key) == {key} \cup {SegmentKey(key, i) : i \in 1..max_segment_count}

Occupied(entries, key) == EntriesOf(key) \cap DOMAIN entries

\* A value that fits the dictionary: at most max_segment_count segments.
Storable(value) ==
  value # NullValue
    /\ Len(Target(value)) <= (value_size - 1) * max_segment_count

Segmented(value) ==
  Storable(value) /\ Len(Target(value)) > value_size - 1

\* Piece i of a value cut into pieces of value_size - 1 characters.
Piece(string, i) ==
  SubSeq(string, (i - 1) * (value_size - 1) + 1,
         Min(i * (value_size - 1), Len(string)))

\* C6: while no call has met a full table, GetValueForKey(key) returns the
\* value of the most recent SetKeyValue(key, value) with value # NULL (and no
\* later removal of key), whatever was stored under key before.
C6_GetReturnsLastSet ==
  (lsd_call.op = "GetValueForKey" /\ ~ lsd_dropped
     /\ Storable(lsd_last[lsd_call.key]))
  => lsd_call.value = lsd_last[lsd_call.key]

\* The revision that removes the key before it stores returns the last value.
LSDPart000ReturnsLastSet ==
  revision = "part_000" => C6_GetReturnsLastSet

\* The second revision, too, as long as a key's values never get shorter
\* across a segment boundary: here, on a key that was not set before.
LSDGetReturnsFirstSet ==
  \A key \in Keys :
    (~ lsd_dropped /\ Storable(lsd_last[key])
       /\ lsd_call.op = "SetKeyValue" /\ lsd_call.key = key
       /\ lsd_call.count = 0)
    => LongStringDictionaryGetValueForKey(entries_, key) = lsd_last[key]

LSDLongAfterLonger ==
  /\ revision = "part_002"
  /\ lsd_call.op = "GetValueForKey" /\ ~ lsd_dropped
  /\ Segmented(lsd_last[lsd_call.key])
  /\ lsd_call.value # NullValue
  /\ Len(Target(lsd_call.value)) > Len(Target(lsd_last[lsd_call.key]))

LongValueSet ==
  lsd_call.op = "SetKeyValue" /\ ~ lsd_dropped
    /\ Segmented(lsd_last[lsd_call.key])

\* Entry key__i holds piece i of the value, for i up to n = ceil(L /
\* (value_size-1)), and GetValueForKey(key) returns the value.
SegmentsHold(key, value) ==
  LET n == CeilDiv(Len(value), value_size - 1)
  IN /\ \A i \in 1..n :
          /\ SegmentKey(key, i) \in DOMAIN entries_
          /\ entries_[SegmentKey(key, i)] = Piece(value, i)
          /\ Len(entries_[SegmentKey(key, i)]) <= value_size - 1
     /\ LongStringDictionaryGetValueForKey(entries_, key) = Pointer(value)

\* The key occupies its first n segment entries and no other entry.
SegmentsOnly(key, value) ==
  Occupied(entries_, key) =
    {SegmentKey(key, i) : i \in 1..CeilDiv(Len(value), value_size - 1)}

\* C7: a SetKeyValue(key, value) with value_size-1 < L <= (value_size-1) *
\* max_segment_count that finds enough free entries leaves the value in the
\* n = ceil(L / (value_size-1)) entries key__1..key__n, entry i holding piece
\* i of at most value_size-1 characters, and GetValueForKey(key) returns the
\* whole value.
C7_LongValueSegmented ==
  LongValueSet
    => SegmentsHold(lsd_call.key, Target(lsd_last[lsd_call.key]))

\* The revision that removes the key first stores exactly these entries.
LSDPart000LongValueSegmented ==
  (revision = "part_000" /\ LongValueSet)
  => /\ SegmentsHold(lsd_call.key, Target(lsd_last[lsd_call.key]))
     /\ SegmentsOnly(lsd_call.key, Target(lsd_last[lsd_call.key]))

\* On an empty dictionary both revisions do.
LSDLongValueSegmentedWhenFresh ==
  (lsd_call.count = 0 /\ LongValueSet)
  => /\ SegmentsHold(lsd_call.key, Target(lsd_last[lsd_call.key]))
     /\ SegmentsOnly(lsd_call.key, Target(lsd_last[lsd_call.key]))

\* C8: RemoveKey(key), and SetKeyValue(key, NULL), remove the plain entry and
\* every segment entry of key: afterwards GetValueForKey(key) is NULL,
\* GetCount() is smaller by exactly the number of entries key occupied, and
\* the entries of the other keys are as before.
C8_RemoveKeyRemovesAll ==
  [][ \A key \in Keys :
        ( \/ (lsd_call'.op = "RemoveKey" /\ lsd_call'.key = key)
          \/ (lsd_call'.op = "SetKeyValue" /\ lsd_call'.key = key
                /\ lsd_last'[key] = NullValue) )
        => /\ LongStringDictionaryGetValueForKey(entries_', key) = NullValue
           /\ Occupied(entries_', key) = {}
           /\ GetCount(entries_') =
                GetCount(entries_) - Cardinality(Occupied(entries_, key))
           /\ \A other \in DOMAIN entries_ \ EntriesOf(key) :
                other \in DOMAIN entries_' /\ entries_'[other] = entries_[other]
           /\ DOMAIN entries_' \subseteq DOMAIN entries_
    ]_vars

\* A removal took away a segmented value and left the other key's entries.
LSDRemovedSegments ==
  /\ lsd_call.op = "RemoveKey"
  /\ lsd_call.count - GetCount(entries_) >= 2
  /\ GetCount(entries_) >= 2
  /\ LongStringDictionaryGetValueForKey(entries_, lsd_call.key) = NullValue

(***************************************************************************)
(*             Properties of the upload_system_symbols pipeline            *)
(***************************************************************************)

\* The process has neither been ended by log.Fatalf nor by a panic.
Live == main_pc \notin {"fatal", "panic"}

Queues == {fq_queue, dq_queue, uq_queue}

\* C9: every queue is closed at most once and only when its producers are
\* through - fq.queue after main's walk, dq.queue after every find worker has
\* returned, uq.queue after every dump worker has returned (with
\* -upload-from: after UploadFromDirectory enqueued its last file) - so that
\* no send meets a closed channel; and when main returns, uq.Wait() included,
\* every queue that was made has been closed exactly once and is empty.
C9_QueuesClosedOnceAfterProducers ==
  /\ main_pc # "panic"
  /\ \A ch \in Queues :
       /\ ch.closes <= 1
       /\ ch.closed <=> ch.closes = 1
       /\ ch.closed => ch.made
  /\ Live =>
       /\ fq_queue.closed => pending = <<>>
       /\ dq_queue.closed => FindPoolDone
       /\ uq_queue.closed =>
            IF flags.mode = "upload-from" THEN pending = <<>> ELSE DumpPoolDone
       /\ (main_pc = "uq.Wait" \/ (main_pc = "returned" /\ uq_queue.made))
            => uq_queue.closed
  /\ main_pc = "returned" =>
       \A ch \in Queues : ch.made => (ch.closes = 1 /\ ch.buf = <<>>)

\* The whole pipeline ran and main returned: three queues, each closed.
PLPipelineReturned ==
  /\ main_pc = "returned"
  /\ flags.mode = "pipeline"
  /\ \A ch \in Queues : ch.made /\ ch.closes = 1
  /\ \E req \in DOMAIN dump_log : dump_log[req].Upload # <<>>

\* The dump requests main's walk leads to.
DumpRequests ==
  {[path |-> FoundFiles[i].path, arch |-> arch] :
     i \in 1..Len(FoundFiles), arch \in {X86, ARM}}
  \cap {req \in [path : {FoundFiles[i].path : i \in 1..Len(FoundFiles)},
                 arch : {X86, ARM}] :
          \E j \in 1..Len(ArchesToDump(req.path)) :
            ArchesToDump(req.path)[j] = req.arch}

\* C10: with an UploadQueue, a dump request whose dump_syms succeeded is
\* passed to Upload exactly once, with its symbol file, by the end of its
\* worker's turn, and never more than once; a dump request whose dump_syms
\* failed is never uploaded and os.Remove was called on its symbol file, which
\* is gone unless another request wrote the same file.  When main returns,
\* every dump request has had its turn.
C10_DumpRequestUploadedOnce ==
  (dq_queue.made /\ uq_queue.made) =>
    /\ \A req \in DOMAIN dump_log :
         LET turn == dump_log[req]
             symfile == Symfile(dumpPath, req)
         IN /\ turn.dump_syms = "none" =>
                 (turn.Upload = <<>> /\ turn.Remove = <<>> /\ ~ turn.done)
            /\ turn.dump_syms = "ok" =>
                 /\ turn.Remove = <<>>
                 /\ turn.Upload \in {<<>>, <<symfile>>}
                 /\ turn.done => turn.Upload = <<symfile>>
            /\ turn.dump_syms = "failed" =>
                 /\ turn.done
                 /\ turn.Upload = <<>>
                 /\ turn.Remove = <<symfile>>
                 /\ (Live /\ main_pc # "returned"
                       /\ \A other \in DOMAIN dump_log \ {req} :
                            Symfile(dumpPath, other) # symfile)
                      => symfile \notin symfiles
    /\ main_pc = "returned" =>
         /\ DOMAIN dump_log = DumpRequests
         /\ \A req \in DOMAIN dump_log : dump_log[req].done

\* A run with an UploadQueue returned after one request was dumped and
\* uploaded and another failed and was removed.
PLUploadedAndRemoved ==
  /\ main_pc = "returned"
  /\ dq_queue.made /\ uq_queue.made
  /\ \E req \in DOMAIN dump_log :
       dump_log[req].dump_syms = "ok"
         /\ dump_log[req].Upload = <<Symfile(dumpPath, req)>>
  /\ \E req \in DOMAIN dump_log :
       dump_log[req].dump_syms = "failed"
         /\ dump_log[req].Remove = <<Symfile(dumpPath, req)>>

\* The symbol files passed to uq.Upload so far: by UploadFromDirectory, or by
\* the dump workers.
Enqueued ==
  IF flags.mode = "upload-from"
    THEN {PathJoin(UploadDirectory, UploadEntries[i]) :
            i \in 1..(Len(UploadEntries) - Len(pending))}
  ELSE {dump_log[req].Upload[1] :
          req \in {r \in DOMAIN dump_log : dump_log[r].Upload # <<>>}}

\* The symupload command line the documentation of -api-key and of
\* uploadServers calls for.
SymUploadArgs(symfile, server) ==
  IF Len(flags.apiKey) > 0
    THEN <<"-p", "sym-upload-v2", "-k", flags.apiKey, symfile, server>>
  ELSE <<symfile, server>>

\* C11: every symbol file that was enqueued on the UploadQueue and has been
\* taken from it by a worker has had symupload run on it for each server of
\* uploadServers - the V2 servers, with '-p sym-upload-v2 -k <api key>', when
\* -api-key is given, the V1 servers otherwise; when main returns this is
\* every enqueued file.
C11_EnqueuedUploadedToEachServer ==
  uq_queue.made =>
    /\ \A symfile \in Enqueued :
         (\A i \in 1..Len(uq_queue.buf) : uq_queue.buf[i] # symfile) =>
           \A s \in 1..Len(uploadServers) :
             SymUploadArgs(symfile, uploadServers[s]) \in symupload_runs
    /\ main_pc = "returned" => uq_queue.buf = <<>>

\* A run with -api-key returned after a symbol file went through the
\* UploadQueue.
PLEnqueuedTakenWithApiKey ==
  /\ main_pc = "returned"
  /\ uq_queue.made
  /\ Len(flags.apiKey) > 0
  /\ Enqueued # {}

(***************************************************************************)
(*                  Properties of PEFile::TryGetDebugInfo                  *)
(***************************************************************************)

\* |size| bytes at |position| lie inside the file.
Inside(file, position, size) == position + size <= file.size

\* The file has the DOS signature, the NT signature and a PE32 or PE32+
\* optional-header magic.
HasPeHeaders(file) ==
  /\ Inside(file, 0, sizeof_IMAGE_DOS_HEADER)
  /\ file.e_magic = IMAGE_DOS_SIGNATURE
  /\ Inside(file, file.e_lfanew, sizeof_IMAGE_NT_HEADERS)
  /\ file.Signature = IMAGE_NT_SIGNATURE
  /\ file.Magic \in {IMAGE_NT_OPTIONAL_HDR32_MAGIC, IMAGE_NT_OPTIONAL_HDR64_MAGIC}

\* The RSDS records of the file that a CodeView entry of the debug directory
\* of |directory| points to, the entry lying inside a section and the record
\* being complete and inside the file.
RsdsRecords(file, directory) ==
  {StructAt(file.rsds, entry.PointerToRawData, ZeroRsds) :
     entry \in
       {e \in file.debug_directories :
          /\ e.Type = IMAGE_DEBUG_TYPE_CODEVIEW
          /\ e.SizeOfData >= sizeof_RSDS_DEBUG_FORMAT
          /\ Inside(file, e.at, sizeof_IMAGE_DEBUG_DIRECTORY)
          /\ Inside(file, e.PointerToRawData, sizeof_RSDS_DEBUG_FORMAT)
          /\ \E s \in file.sections, k \in 0..(MaxDebugEntries + 1) :
               LET address == directory.VirtualAddress + sizeof_IMAGE_DEBUG_DIRECTORY * k
               IN /\ address < directory.VirtualAddress + directory.Size
                  /\ Inside(file, s.at, sizeof_IMAGE_SECTION_HEADER)
                  /\ s.VirtualAddress <= address
                  /\ address < s.VirtualAddress + s.SizeOfRawData
                  /\ e.at = s.PointerToRawData + address - s.VirtualAddress}}

\* The build ids of a PE/COFF file.
BuildIds(file) ==
  IF file.Magic = IMAGE_NT_OPTIONAL_HDR64_MAGIC
    THEN IF Inside(file, file.e_lfanew, sizeof_IMAGE_NT_HEADERS64)
           THEN RsdsRecords(file, file.DataDirectory64) ELSE {}
  ELSE IF Inside(file, file.e_lfanew, sizeof_IMAGE_NT_HEADERS32)
         THEN RsdsRecords(file, file.DataDirectory32) ELSE {}

\* What part_008's TryGetDebugInfo is to return for |file|, and to leave in
\* debug_info.
ExpectedFormat(file, call) ==
  /\ call.result \in {"notPeCoff", "peWithoutBuildId", "peWithBuildId"}
  /\ call.result = "notPeCoff" <=> ~ HasPeHeaders(file)
  /\ call.result = "peWithBuildId" <=> (HasPeHeaders(file) /\ BuildIds(file) # {})
  /\ call.result = "peWithBuildId" =>
       \E rsds \in BuildIds(file) : call.debug_info = Populated(rsds)
  /\ call.result # "peWithBuildId" => call.debug_info = Unwritten

\* C12: TryGetDebugInfo(filename, debug_info) returns notPeCoff exactly for a
\* file without a valid DOS signature, NT signature or PE32/PE32+ magic;
\* peWithBuildId exactly for a PE/COFF file whose debug directory has, at any
\* position, a CodeView entry inside a section with a complete RSDS record
\* inside the file, debug_info then holding that record's GUID and age; and
\* peWithoutBuildId otherwise, with debug_info unwritten.
C12_FormatIffBuildId ==
  pe_call.op = "part_008" => ExpectedFormat(pe_file, pe_call)

\* A PE/COFF file whose second debug directory entry is its CodeView entry has
\* been examined.
PECodeViewSecond ==
  /\ pe_call.op = "part_008"
  /\ HasPeHeaders(pe_file)
  /\ pe_file.size = FullSize
  /\ BuildIds(pe_file) # {}
  /\ \E e \in pe_file.debug_directories :
       e.Type # IMAGE_DEBUG_TYPE_CODEVIEW /\ e.PointerToRawData = RsdsAt(1)

\* The directory has at most one entry and the file does not end with the
\* RSDS record: there the format is found exactly when the build id is.
PEOneEntryFormat ==
  (/\ pe_call.op = "part_008"
   /\ Cardinality(pe_file.rsds) <= 1
   /\ pe_file.size # RsdsEnd)
    => ExpectedFormat(pe_file, pe_call)

\* C13: TryGetDebugInfo(file, pe, debug_info) sets *pe to true exactly for a
\* file with valid MZ and PE signatures and a PE32 or PE32+ magic; it returns
\* true only with *pe true and a complete RSDS record of the file copied into
\* debug_info; for a file that is not such a PE file it returns false and
\* debug_info is not written.
C13_TrueOnlyForPe ==
  pe_call.op = "pe_file.h" =>
    /\ pe_call.pe <=> HasPeHeaders(pe_file)
    /\ pe_call.result = "true" =>
         /\ pe_call.pe
         /\ \E rsds \in BuildIds(pe_file) : pe_call.debug_info = Populated(rsds)
    /\ ~ HasPeHeaders(pe_file) =>
         (pe_call.result = "false" /\ pe_call.debug_info = Unwritten)

\* A file with both signatures, another optional-header magic and a CodeView
\* entry with its RSDS record has been examined through a stream.
PEOtherMagicExamined ==
  /\ pe_call.op = "pe_file.h"
  /\ pe_file.e_magic = IMAGE_DOS_SIGNATURE
  /\ pe_file.Signature = IMAGE_NT_SIGNATURE
  /\ pe_file.Magic = OtherMagic
  /\ BuildIds(pe_file) # {}

\* *pe is as C13 has it, and for a PE file a call that returns true has
\* copied a complete RSDS record of the file.
PEStreamPeFlag ==
  pe_call.op = "pe_file.h" =>
    /\ pe_call.pe <=> HasPeHeaders(pe_file)
    /\ (pe_call.pe /\ pe_call.result = "true") =>
         \E rsds \in BuildIds(pe_file) : pe_call.debug_info = Populated(rsds)

(***************************************************************************)
(*                    Properties of BaseName and DirName                   *)
(***************************************************************************)

\* |path| without its trailing slashes.
RECURSIVE StripTrailingSlashes(_)
StripTrailingSlashes(path) ==
  IF path # <<>> /\ path[Len(path)] = "/"
    THEN StripTrailingSlashes(SubSeq(path, 1, Len(path) - 1))
  ELSE path

\* |path| without its trailing characters other than slashes.
RECURSIVE StripTrailingComponent(_)
StripTrailingComponent(path) ==
  IF path # <<>> /\ path[Len(path)] # "/"
    THEN StripTrailingComponent(SubSeq(path, 1, Len(path) - 1))
  ELSE path

\* basename(3): "." for the empty string, "/" for a string of slashes,
\* otherwise the last component, trailing slashes not counted.
basename(path) ==
  LET stripped == StripTrailingSlashes(path)
  IN IF path = <<>> THEN <<".">>
     ELSE IF stripped = <<>> THEN <<"/">>
     ELSE SubSeq(stripped, Len(StripTrailingComponent(stripped)) + 1, Len(stripped))

\* dirname(3): "." for the empty string and for a path without a slash
\* before its last component, "/" for a string of slashes, otherwise what
\* precedes the last component, without the slashes that separate the two.
dirname(path) ==
  LET stripped == StripTrailingSlashes(path)
      parent == StripTrailingSlashes(StripTrailingComponent(stripped))
  IN IF path = <<>> THEN <<".">>
     ELSE IF stripped = <<>> THEN <<"/">>
     ELSE IF StripTrailingComponent(stripped) = <<>> THEN <<".">>
     ELSE IF parent = <<>> THEN <<"/">>
     ELSE parent

\* C14: DirName(path) and BaseName(path) are dirname(3) and basename(3) of
\* path: BaseName holds no '/' unless it is "/", DirName has no trailing '/'
\* unless it is "/", trailing slashes of the path are not counted, and the
\* empty path gives "." for both.
C14_SplitPathAsDirnameBasename ==
  /\ path_call.op = "BaseName" =>
       /\ path_call.result = basename(path_call.path)
       /\ path_call.result = <<"/">>
            \/ \A i \in 1..Len(path_call.result) : path_call.result[i] # "/"
  /\ path_call.op = "DirName" =>
       /\ path_call.result = dirname(path_call.path)
       /\ path_call.result = <<"/">>
            \/ path_call.result[Len(path_call.result)] # "/"

\* BaseName was called on a relative path of one component with a trailing
\* slash.
PathOneComponentTrailingSlash ==
  /\ path_call.op = "BaseName"
  /\ path_call.path = <<"a", "/">>

\* On a path without two slashes in a row that either starts with a slash or
\* has no trailing slash, both functions are as C14 has them.
PathPlainAsDirnameBasename ==
  (/\ \A i \in 1..(Len(path_call.path) - 1) :
        ~ (path_call.path[i] = "/" /\ path_call.path[i + 1] = "/")
   /\ \/ path_call.path = <<>>
      \/ path_call.path[1] = "/"
      \/ path_call.path[Len(path_call.path)] # "/")
    => C14_SplitPathAsDirnameBasename

(***************************************************************************)
(*                 Properties of the handle-data stream decoder            *)
(***************************************************************************)

\* The descriptors are |n| elements of |typeName|, |size| bytes each, one
\* after the other from the end of the header on.
DescriptorsAre(stream, typeName, size, n) ==
  /\ Len(stream.Descriptors) = n
  /\ \A k \in 1..n :
       /\ stream.Descriptors[k].typeName = typeName
       /\ stream.Descriptors[k].size = size
       /\ stream.Descriptors[k].at = 16 + size * (k - 1)

\* The layout chosen by SizeOfDescriptor: 32 -> MINIDUMP_HANDLE_DESCRIPTOR,
\* 40 -> MINIDUMP_HANDLE_DESCRIPTOR_2, any other -> byte arrays of
\* SizeOfDescriptor bytes; NumberOfDescriptors of them.
LayoutBySizeOfDescriptor(header, stream) ==
  /\ header.SizeOfDescriptor = 32 =>
       /\ stream.alternative = "MINIDUMP_HANDLE_DESCRIPTOR"
       /\ DescriptorsAre(stream, "MINIDUMP_HANDLE_DESCRIPTOR", 32, header.NumberOfDescriptors)
  /\ header.SizeOfDescriptor = 40 =>
       /\ stream.alternative = "MINIDUMP_HANDLE_DESCRIPTOR_2"
       /\ DescriptorsAre(stream, "MINIDUMP_HANDLE_DESCRIPTOR_2", 40, header.NumberOfDescriptors)
  /\ header.SizeOfDescriptor \notin {32, 40} =>
       DescriptorsAre(stream, "uint8[]", header.SizeOfDescriptor, header.NumberOfDescriptors)

\* C15 as stated: the layout of the descriptors is chosen from
\* SizeOfDescriptor alone.
HDLayoutBySizeOfDescriptorAlone ==
  handle_data.decoded =>
    LayoutBySizeOfDescriptor(handle_data.header, handle_data.stream)

\* C15, amended: with SizeOfHeader = 16 the layout of the descriptors is
\* chosen by SizeOfDescriptor - 32 selects MINIDUMP_HANDLE_DESCRIPTOR, 40
\* selects MINIDUMP_HANDLE_DESCRIPTOR_2, any other size keeps the
\* NumberOfDescriptors descriptors as byte arrays of SizeOfDescriptor bytes
\* each; with any other SizeOfHeader the stream is decoded as
\* MINIDUMP_HANDLE_DESCRIPTOR_UNKNOWN with no descriptors, whatever
\* SizeOfDescriptor is.
C15_LayoutBySizeOfDescriptor ==
  handle_data.decoded =>
    IF handle_data.header.SizeOfHeader = 16
      THEN LayoutBySizeOfDescriptor(handle_data.header, handle_data.stream)
    ELSE /\ handle_data.stream.alternative = "MINIDUMP_HANDLE_DESCRIPTOR_UNKNOWN"
         /\ handle_data.stream.Descriptors = <<>>

\* A stream with a 16-byte header and descriptors of a size that is neither
\* 32 nor 40 has been decoded into byte arrays.
HDRawDescriptors ==
  /\ handle_data.decoded
  /\ handle_data.header.SizeOfHeader = 16
  /\ handle_data.header.SizeOfDescriptor = 36
  /\ handle_data.header.NumberOfDescriptors = 2
  /\ Len(handle_data.stream.Descriptors) = 2

(***************************************************************************)
(*              Properties of PrintStack's use of the contexts             *)
(***************************************************************************)

\* C16: PrintStack reads the register context only of frames whose trust is
\* not FRAME_TRUST_INLINE, when it prints a frame's registers as well as when
\* it prints the stack contents between a frame and the frame after it.
C16_ContextOnlyOfPhysicalFrames ==
  stack_print.printed =>
    \A read \in stack_print.reads :
      stack_print.frames[read.frame + 1].trust # FRAME_TRUST_INLINE

\* PrintStack has printed, with the stack contents, an amd64 stack that
\* starts with an inline frame.
SCInlineFrameWithContents ==
  /\ stack_print.printed
  /\ stack_print.output_stack_contents
  /\ stack_print.cpu = "amd64"
  /\ Len(stack_print.frames) >= 2
  /\ stack_print.frames[1].trust = FRAME_TRUST_INLINE

\* The registers are read only of frames that are not inline, and without
\* the stack contents no other context is read.
SCRegistersOnlyOfPhysicalFrames ==
  stack_print.printed =>
    /\ \A read \in stack_print.reads :
         read.what = "registers" =>
           stack_print.frames[read.frame + 1].trust # FRAME_TRUST_INLINE
    /\ ~ stack_print.output_stack_contents =>
         \A read \in stack_print.reads : read.what = "registers"

====
